---- MODULE Spec2Model ----
(***************************************************************************)
(* Finnish payment-identifier subsystem of the invoicing application:      *)
(*   - mod97 / calculateRFReference / validateRFReference (ISO 11649),      *)
(*   - generateVirtualBarcode (54-digit virtual barcode),                   *)
(*   - generateSEPAString (EPC QR payload).                                 *)
(*                                                                         *)
(* A JavaScript string is a sequence of one-character strings.  A number   *)
(* that the code renders with toString() is an integer here; an amount in  *)
(* euros (a float in the code) is an integer count of thousandths of a     *)
(* euro, so that the rounding to cents is a real step.  NaN is an integer  *)
(* no computation of the model produces otherwise.  The state machine      *)
(* is one caller: from "idle" it calls one function with arguments drawn   *)
(* from bounded sets, the call's result is recorded, and Return goes back  *)
(* to "idle".  SpecConc runs the same functions as two tasks whose steps   *)
(* interleave; SpecRate is the rate limiter of the POST handlers over     *)
(* time, SpecMixed the limiter called with several identifiers.  The       *)
(* caller of Spec also passes requests through the middleware.  SpecApp    *)
(* is the invoice routes over the database with two requests handled at a  *)
(* time, SpecCompanies the same for POST /api/companies, and SpecQuota     *)
(* POST /api/invoices with the requests arriving one by one.               *)
(***************************************************************************)
EXTENDS Integers, Sequences, FiniteSets, TLC

VARIABLES fn, args, ret

\* concurrent callers: call[t] is the call task t is making (function,
\* arguments, position, result), frame[f] holds the local variables of one
\* activation
VARIABLES call, frame

\* the rate limiter: rateLimitStore is the module-level store, clock is what
\* Date.now() returns, result is what the last call of rateLimit returned,
\* passed counts the calls that succeeded in the last interval by identifier
\* and time, ticks
\* counts the advances of the clock
VARIABLES rateLimitStore, clock, result, passed, ticks

\* alone.store[id] is the entry of id had only the calls of id been made and
\* had the cleanup never run, alone.result is what the last call had returned
\* then; mixedCalls counts the calls made with the identifiers mixed
VARIABLES alone, mixedCalls

\* the web application: db is the database, request[s] is the request slot s
\* is handling (route, inputs, position in the handler, locals, response),
\* started counts the requests started
VARIABLES db, request, started

callerVars == <<fn, args, ret>>

concVars == <<call, frame>>

rateVars == <<rateLimitStore, clock, result, passed, ticks, alone, mixedCalls>>

appVars == <<db, request, started>>

vars == <<fn, args, ret, call, frame, rateLimitStore, clock, result, passed, ticks,
          alone, mixedCalls, db, request, started>>

(***************************************************************************)
(* Bounds of the model.                                                    *)
(***************************************************************************)
MaxSeedLen == 3      \* seeds: every string over SeedAlphabet up to this length
MaxBlocks == 3       \* digit bases: up to this many blocks of 1..5 digits
MaxTailLen == 4      \* validateRFReference inputs: prefix + tail up to this length
MaxDigitsLen == 3    \* mod97: every digit string up to this length
MaxLongBlocks == 4   \* mod97: up to this many blocks of 10 or 11 digits

(***************************************************************************)
(* Characters and JavaScript string primitives.                            *)
(***************************************************************************)
DigitChars == <<"0", "1", "2", "3", "4", "5", "6", "7", "8", "9">>

Digit == {DigitChars[i] : i \in 1..10}

LowerChars == <<"a", "b", "c", "d", "e", "f", "g", "h", "i", "j", "k", "l", "m",
                "n", "o", "p", "q", "r", "s", "t", "u", "v", "w", "x", "y", "z">>

UpperChars == <<"A", "B", "C", "D", "E", "F", "G", "H", "I", "J", "K", "L", "M",
                "N", "O", "P", "Q", "R", "S", "T", "U", "V", "W", "X", "Y", "Z">>

Whitespace == {" ", "\t", "\n"}

NaN == -2147483647

Min(a, b) == IF a < b THEN a ELSE b

Max(a, b) == IF a > b THEN a ELSE b

\* c - '0' for an ASCII digit
DigitVal(c) == CHOOSE v \in 0..9 : DigitChars[v + 1] = c

\* parseInt(c) of a one-character string: the digit's value, or NaN
parseInt(c) == IF c \in Digit THEN DigitVal(c) ELSE NaN

\* String.prototype.toUpperCase, one character
UpperChar(c) ==
    IF \E i \in 1..26 : LowerChars[i] = c
    THEN UpperChars[CHOOSE i \in 1..26 : LowerChars[i] = c]
    ELSE c

toUpperCase(s) == [i \in 1..Len(s) |-> UpperChar(s[i])]

IsDigitChar(c) == c \in Digit

IsNotSpace(c) == c \notin Whitespace

\* s.replace(/\D/g, '') and s.replace(/[^0-9]/g, ''): the digits of s, in order
StripNonDigits(s) == SelectSeq(s, IsDigitChar)

\* s.replace(/\s/g, '')
StripWhitespace(s) == SelectSeq(s, IsNotSpace)

\* s.padStart(n, c)
padStart(s, n, c) ==
    IF Len(s) >= n THEN s ELSE [i \in 1..(n - Len(s)) |-> c] \o s

\* s.slice(start, end): negative indices count from the end, both are clamped
slice(s, start, end) ==
    LET len == Len(s)
        from == IF start < 0 THEN Max(len + start, 0) ELSE Min(start, len)
        to == IF end < 0 THEN Max(len + end, 0) ELSE Min(end, len)
    IN  IF from >= to THEN <<>> ELSE SubSeq(s, from + 1, to)

\* s.slice(start)
sliceFrom(s, start) == slice(s, start, Len(s))

\* s.substring(start, end), 0 <= start <= end
substring(s, start, end) == slice(s, Max(start, 0), Max(end, 0))

RECURSIVE NatToString(_)
NatToString(n) ==
    IF n < 10 THEN <<DigitChars[n + 1]>>
    ELSE NatToString(n \div 10) \o <<DigitChars[(n % 10) + 1]>>

\* Number.prototype.toString() of an integer, or of NaN
toString(n) ==
    IF n = NaN THEN <<"N", "a", "N">>
    ELSE IF n < 0 THEN <<"-">> \o NatToString(0 - n)
    ELSE NatToString(n)

(***************************************************************************)
(* The clock.  Date.now() is a count of milliseconds of 13 digits today,   *)
(* wider than the integers of the checker: a clock value is the pair       *)
(* hi * 10^8 + lo with 0 <= lo < 10^8.                                     *)
(***************************************************************************)
ClockToString(t) ==
    IF t.hi = 0 THEN toString(t.lo)
    ELSE toString(t.hi) \o padStart(toString(t.lo), 8, "0")

(***************************************************************************)
(* rf-reference: mod97                                                     *)
(***************************************************************************)
\* one iteration: remainder = (remainder * 10 + parseInt(numStr[i])) % 97
Mod97StepDropsCarry(remainder, c) ==
    IF remainder = NaN \/ parseInt(c) = NaN THEN NaN
    ELSE (remainder + parseInt(c)) % 97

Mod97Step(remainder, c) ==
    IF remainder = NaN \/ parseInt(c) = NaN THEN NaN
    ELSE (remainder * 10 + parseInt(c)) % 97

\* the values of `remainder`: before the loop, then after each iteration
RECURSIVE Mod97Trace(_, _, _)
Mod97Trace(numStr, i, trace) ==
    IF i > Len(numStr) THEN trace
    ELSE Mod97Trace(numStr, i + 1,
                    Append(trace, Mod97Step(trace[Len(trace)], numStr[i])))

mod97(numStr) ==
    LET trace == Mod97Trace(numStr, 1, <<0>>) IN trace[Len(trace)]

(***************************************************************************)
(* rf-reference: calculateRFReference, validateRFReference                 *)
(***************************************************************************)
RFSuffixNoPlaceholder == <<"2", "7", "1", "5">>

\* RF = 2715, 00 = placeholder
RFSuffix == <<"2", "7", "1", "5", "0", "0">>

\* (98 - remainder).toString().padStart(2, '0')
CheckDigitsNoPad(remainder) ==
    IF remainder = NaN THEN toString(NaN) ELSE toString(98 - remainder)

CheckDigitsFrom97(remainder) ==
    IF remainder = NaN THEN toString(NaN)
    ELSE padStart(toString(97 - remainder), 2, "0")

CheckDigitsOf(remainder) ==
    IF remainder = NaN THEN toString(NaN)
    ELSE padStart(toString(98 - remainder), 2, "0")

\* numericPart || Date.now().toString().slice(-8)
BaseNumberNoFallback(numericPart, now) == numericPart

RECURSIVE DropLeadingZeros(_)
DropLeadingZeros(s) ==
    IF Len(s) > 1 /\ s[1] = "0" THEN DropLeadingZeros(Tail(s)) ELSE s

BaseNumberNoLeadingZeros(numericPart, now) ==
    IF numericPart # <<>> THEN DropLeadingZeros(numericPart)
    ELSE sliceFrom(ClockToString(now), -8)

BaseNumberOf(numericPart, now) ==
    IF numericPart # <<>> THEN numericPart
    ELSE sliceFrom(ClockToString(now), -8)

\* the locals of calculateRFReference; `now` is the value Date.now() returns
RFLocalsCheckLast(invoiceNumber, now) ==
    LET numericPart == StripNonDigits(invoiceNumber)
        baseNumber == BaseNumberOf(numericPart, now)
        temp == baseNumber \o RFSuffix
        remainder == mod97(temp)
        checkDigits == CheckDigitsOf(remainder)
    IN  [numericPart |-> numericPart, baseNumber |-> baseNumber, temp |-> temp,
         remainder |-> remainder, checkDigits |-> checkDigits,
         result |-> <<"R", "F">> \o baseNumber \o checkDigits]

RFLocals(invoiceNumber, now) ==
    LET numericPart == StripNonDigits(invoiceNumber)
        baseNumber == BaseNumberOf(numericPart, now)
        temp == baseNumber \o RFSuffix
        remainder == mod97(temp)
        checkDigits == CheckDigitsOf(remainder)
    IN  [numericPart |-> numericPart, baseNumber |-> baseNumber, temp |-> temp,
         remainder |-> remainder, checkDigits |-> checkDigits,
         result |-> <<"R", "F">> \o checkDigits \o baseNumber]

calculateRFReference(invoiceNumber, now) == RFLocals(invoiceNumber, now).result

\* /^RF\d{3,}$/.test(cleaned)
RFPatternTwoDigits(cleaned) ==
    /\ Len(cleaned) >= 4
    /\ cleaned[1] = "R"
    /\ cleaned[2] = "F"
    /\ \A i \in 3..Len(cleaned) : cleaned[i] \in Digit

RFPattern(cleaned) ==
    /\ Len(cleaned) >= 5
    /\ cleaned[1] = "R"
    /\ cleaned[2] = "F"
    /\ \A i \in 3..Len(cleaned) : cleaned[i] \in Digit

validateRFReferenceCaseSensitive(rfReference) ==
    LET cleaned == StripWhitespace(rfReference)
    IN  IF ~RFPattern(cleaned) THEN FALSE
        ELSE LET checkDigits == substring(cleaned, 2, 4)
                 baseNumber == sliceFrom(cleaned, 4)
                 temp == baseNumber \o RFSuffix
                 remainder == mod97(temp)
                 calculatedCheckDigits == CheckDigitsOf(remainder)
             IN  checkDigits = calculatedCheckDigits

validateRFReferenceFirstCheckDigit(rfReference) ==
    LET cleaned == toUpperCase(StripWhitespace(rfReference))
    IN  IF ~RFPattern(cleaned) THEN FALSE
        ELSE LET checkDigits == substring(cleaned, 2, 4)
                 baseNumber == sliceFrom(cleaned, 4)
                 temp == baseNumber \o RFSuffix
                 remainder == mod97(temp)
                 calculatedCheckDigits == CheckDigitsOf(remainder)
             IN  checkDigits[1] = calculatedCheckDigits[1]

validateRFReference(rfReference) ==
    LET cleaned == toUpperCase(StripWhitespace(rfReference))
    IN  IF ~RFPattern(cleaned) THEN FALSE
        ELSE LET checkDigits == substring(cleaned, 2, 4)
                 baseNumber == sliceFrom(cleaned, 4)
                 temp == baseNumber \o RFSuffix
                 remainder == mod97(temp)
                 calculatedCheckDigits == CheckDigitsOf(remainder)
             IN  checkDigits = calculatedCheckDigits

(***************************************************************************)
(* virtualBarcode: generateVirtualBarcode                                  *)
(* amount is in thousandths of a euro; dueDate is the record of what       *)
(* getFullYear(), getMonth() and getDate() return.                         *)
(***************************************************************************)
\* Math.round(amount * 100): the nearest integer, halves towards +Infinity
MathRoundCents(amount) == IF amount = NaN THEN NaN ELSE (amount + 5) \div 10

\* n + 1 in JavaScript numbers
PlusOne(n) == IF n = NaN THEN NaN ELSE n + 1

\* const formattedDate = day + month + year
FormattedDateYYMMDD(dueDate) ==
    LET year == sliceFrom(toString(dueDate.fullYear), 2)
        month == padStart(toString(PlusOne(dueDate.month)), 2, "0")
        day == padStart(toString(dueDate.date), 2, "0")
    IN  year \o month \o day

FormattedDate(dueDate) ==
    LET year == sliceFrom(toString(dueDate.fullYear), 2)
        month == padStart(toString(PlusOne(dueDate.month)), 2, "0")
        day == padStart(toString(dueDate.date), 2, "0")
    IN  day \o month \o year

\* the locals of generateVirtualBarcode, as the debug log prints them
BarcodeLocals(iban, amount, rfReference, dueDate) ==
    LET version == <<"4">>
        ibanDigits == StripNonDigits(iban)
        paddedIban == slice(padStart(ibanDigits, 16, "0"), 0, 16)
        amountInCents == MathRoundCents(amount)
        paddedAmount == padStart(toString(amountInCents), 8, "0")
        reserved == <<"0", "0", "0">>
        rfDigits == StripNonDigits(rfReference)
        paddedReference == slice(padStart(rfDigits, 20, "0"), 0, 23)
        formattedDate == FormattedDate(dueDate)
    IN  [version |-> version, paddedIban |-> paddedIban,
         paddedAmount |-> paddedAmount, reserved |-> reserved,
         paddedReference |-> paddedReference, formattedDate |-> formattedDate,
         barcode |-> version \o paddedIban \o paddedAmount \o reserved
                     \o paddedReference \o formattedDate]

\* the outcome: the barcode, or the Error thrown with the length it names
generateVirtualBarcode(iban, amount, rfReference, dueDate) ==
    LET l == BarcodeLocals(iban, amount, rfReference, dueDate)
    IN  IF Len(l.barcode) # 54
        THEN [kind |-> "throw", got |-> Len(l.barcode), log |-> l]
        ELSE [kind |-> "return", value |-> l.barcode, log |-> l]

(***************************************************************************)
(* virtualBarcode: formatVirtualBarcode                                    *)
(***************************************************************************)
\* Array.prototype.join(sep)
RECURSIVE join(_, _)
join(parts, sep) ==
    IF Len(parts) = 0 THEN <<>>
    ELSE IF Len(parts) = 1 THEN parts[1]
    ELSE parts[1] \o sep \o join(Tail(parts), sep)

\* for (let i = 1; i < barcode.length; i += 5) parts.push(barcode.slice(i, i + 5))
RECURSIVE FormatLoop(_, _, _)
FormatLoop(barcode, i, parts) ==
    IF ~(i < Len(barcode)) THEN parts
    ELSE FormatLoop(barcode, i + 5, Append(parts, slice(barcode, i, i + 5)))

\* barcode[0] is undefined for the empty string; join renders undefined as ''
FirstChar(barcode) == IF Len(barcode) = 0 THEN <<>> ELSE <<barcode[1]>>

formatVirtualBarcodeFromZero(barcode) ==
    join(FormatLoop(barcode, 0, <<FirstChar(barcode)>>), <<" ">>)

formatVirtualBarcode(barcode) ==
    join(FormatLoop(barcode, 1, <<FirstChar(barcode)>>), <<" ">>)

(***************************************************************************)
(* middleware: the auth middleware and its matcher                         *)
(***************************************************************************)
\* s.startsWith(prefix)
startsWith(s, prefix) ==
    Len(s) >= Len(prefix) /\ SubSeq(s, 1, Len(prefix)) = prefix

\* const publicRoutes = ['/login', '/register']
publicRoutes == {<<"/", "l", "o", "g", "i", "n">>, <<"/", "r", "e", "g", "i", "s", "t", "e", "r">>}

\* const publicApiRoutes = ['/api/auth']
publicApiRoutes == {<<"/", "a", "p", "i", "/", "a", "u", "t", "h">>}

\* config.matcher: '/((?!_next/static|_next/image|favicon.ico|.*\.(?:svg|...)$).*)'
MatcherSelects(pathname) ==
    /\ Len(pathname) >= 1
    /\ pathname[1] = "/"
    /\ LET rest == Tail(pathname)
           endsWith(suffix) ==
               /\ Len(rest) >= Len(suffix)
               /\ SubSeq(rest, Len(rest) - Len(suffix) + 1, Len(rest)) = suffix
           \* favicon.ico as a pattern: the dot stands for any character
           startsWithFavicon ==
               /\ Len(rest) >= 11
               /\ SubSeq(rest, 1, 7) = <<"f", "a", "v", "i", "c", "o", "n">>
               /\ SubSeq(rest, 9, 11) = <<"i", "c", "o">>
           extensions == {<<"s", "v", "g">>, <<"p", "n", "g">>, <<"j", "p", "g">>, <<"j", "p", "e", "g">>, <<"g", "i", "f">>, <<"w", "e", "b", "p">>}
       IN  /\ ~startsWith(rest, <<"_", "n", "e", "x", "t", "/", "s", "t", "a", "t", "i", "c">>)
           /\ ~startsWith(rest, <<"_", "n", "e", "x", "t", "/", "i", "m", "a", "g", "e">>)
           /\ ~startsWithFavicon
           /\ ~\E e \in extensions : endsWith(<<".">> \o e)

middlewareExactApiRoute(pathname, isLoggedIn) ==
    LET isPublicRoute == pathname \in publicRoutes
        isPublicApiRoute == pathname \in publicApiRoutes
    IN  IF ~isLoggedIn /\ ~isPublicRoute /\ ~isPublicApiRoute
        THEN [kind |-> "redirect", to |-> <<"/", "l", "o", "g", "i", "n">>]
        ELSE IF isLoggedIn /\ isPublicRoute
        THEN [kind |-> "redirect", to |-> <<"/">>]
        ELSE [kind |-> "next", to |-> <<>>]

\* the function given to auth(): NextResponse.redirect or NextResponse.next
middleware(pathname, isLoggedIn) ==
    LET isPublicRoute == pathname \in publicRoutes
        isPublicApiRoute == \E route \in publicApiRoutes : startsWith(pathname, route)
    IN  IF ~isLoggedIn /\ ~isPublicRoute /\ ~isPublicApiRoute
        THEN [kind |-> "redirect", to |-> <<"/", "l", "o", "g", "i", "n">>]
        ELSE IF isLoggedIn /\ isPublicRoute
        THEN [kind |-> "redirect", to |-> <<"/">>]
        ELSE [kind |-> "next", to |-> <<>>]

\* what happens to a request before its page or route handler: the
\* middleware runs on the paths the matcher selects, other requests go on
Dispatch(pathname, isLoggedIn) ==
    IF MatcherSelects(pathname)
    THEN [ran |-> TRUE, response |-> middleware(pathname, isLoggedIn)]
    ELSE [ran |-> FALSE, response |-> [kind |-> "next", to |-> <<>>]]

(***************************************************************************)
(* generateInvoicePDF: generateSEPAString                                  *)
(***************************************************************************)
\* amount.toFixed(2): sign, integer part, '.', two decimals
toFixed2(amount) ==
    IF amount = NaN THEN toString(NaN)
    ELSE LET mag == IF amount < 0 THEN 0 - amount ELSE amount
             cents == (mag + 5) \div 10
         IN  (IF amount < 0 THEN <<"-">> ELSE <<>>)
             \o NatToString(cents \div 100) \o <<".">>
             \o padStart(NatToString(cents % 100), 2, "0")

SEPAFieldsNoTrailing(iban, bic, amount, reference, beneficiaryName) ==
    << <<"B", "C", "D">>, <<"0", "0", "2">>, <<"1">>, <<"S", "C", "T">>,
       bic, beneficiaryName, iban, <<"E", "U", "R">> \o toFixed2(amount),
       <<>>, reference >>

SEPAFieldsNameFirst(iban, bic, amount, reference, beneficiaryName) ==
    << <<"B", "C", "D">>, <<"0", "0", "2">>, <<"1">>, <<"S", "C", "T">>,
       beneficiaryName, bic, iban, <<"E", "U", "R">> \o toFixed2(amount),
       <<>>, reference, <<>>, <<>> >>

SEPAFieldsShort(iban, bic, amount, reference, beneficiaryName) ==
    << <<"B", "C", "D">>, <<"0", "0", "2">>, <<"1">>, <<"S", "C", "T">>,
       bic, beneficiaryName, iban, <<"E", "U", "R">> \o toFixed2(amount),
       reference, <<>>, <<>> >>

\* the array literal that is joined
SEPAFields(iban, bic, amount, reference, beneficiaryName) ==
    << <<"B", "C", "D">>, <<"0", "0", "2">>, <<"1">>, <<"S", "C", "T">>,
       bic, beneficiaryName, iban, <<"E", "U", "R">> \o toFixed2(amount),
       <<>>, reference, <<>>, <<>> >>

generateSEPAString(iban, bic, amount, reference, beneficiaryName) ==
    join(SEPAFields(iban, bic, amount, reference, beneficiaryName), <<"\n">>)

(***************************************************************************)
(* The inputs the caller draws from.                                       *)
(***************************************************************************)
\* every string over alphabet of length 0..n
Strs(alphabet, n) == UNION {[1..k -> alphabet] : k \in 0..n}

\* every concatenation of 0..n elements of blocks
RECURSIVE Concats(_, _)
Concats(blocks, n) ==
    IF n = 0 THEN {<<>>}
    ELSE LET prev == Concats(blocks, n - 1)
         IN  prev \cup {p \o b : p \in prev, b \in blocks}

D18 == <<"1", "2", "3", "4", "5", "6", "7", "8", "9", "0", "1", "2", "3", "4",
         "5", "6", "7", "8">>

INV001 == <<"I", "N", "V", "-", "0", "0", "1">>

RF74001 == <<"R", "F", "7", "4", "0", "0", "1">>

RF75001 == <<"R", "F", "7", "5", "0", "0", "1">>

SeedAlphabet == {"0", "1", "9", "I", "-"}

BaseBlocks == {<<"9", "7">>, <<"1", "2", "3", "4", "5">>,
               <<"0", "0", "4", "2", "0">>}

\* digit strings of 1..5*MaxBlocks digits
Bases == Concats(BaseBlocks, MaxBlocks) \ {<<>>}

Seeds == Strs(SeedAlphabet, MaxSeedLen) \cup Bases
         \cup {INV001, <<"I", "N", "V", " ">>,
                <<"2", "0", "2", "4", "-", "0", "4", "2">>,
                D18 \o <<"9", "0", "1">>, D18 \o <<"9", "0", "1", "2">>,
                <<"I", "N", "V", "-">> \o D18 \o <<"-", "9", "0", "1", "2", "3">>}

\* values of Date.now(): hi * 10^8 + lo
Clock == {[hi |-> 0, lo |-> 0], [hi |-> 0, lo |-> 4711],
          [hi |-> 17624, lo |-> 120]}

TwoDigits == {<<a, b>> : a \in Digit, b \in Digit}

RefPrefixes == {<<>>, <<"R", "F">>, <<"r", "f">>, <<"R", " ", "f">>,
                <<"R", "F", "7">>, <<"r", "f", " ", "7">>, <<"F", "R">>,
                <<"R", "G">>, <<"X", "R", "F">>, <<"R", "F", "7", "5">>}

TailAlphabet == {"0", "1", "4", "A", " "}

ValidateInputs == {p \o t : p \in RefPrefixes, t \in Strs(TailAlphabet, MaxTailLen)}
                  \cup {<<"R", "F">> \o cc \o <<"0", "0", "1">> : cc \in TwoDigits}
                  \cup {<<"r", "f", "7", "4", " ", "0", "0", "1">>,
                         <<"r", "F", "\t", "7", "5", "0", "0", "1", "\n">>}

LongBlocks == {<<"0", "0", "0", "0", "0", "0", "0", "0", "0", "0">>,
               <<"1", "2", "3", "4", "5", "6", "7", "8", "9", "0">>,
               <<"9", "9", "9", "9", "9", "9", "9", "9", "9", "9">>,
               <<"2", "7", "1", "5", "0", "0", "8", "6", "4", "2", "1">>}

\* every digit string of up to MaxDigitsLen digits, and long ones of up to
\* 11*MaxLongBlocks digits
Mod97Inputs == Strs(Digit, MaxDigitsLen) \cup Concats(LongBlocks, MaxLongBlocks)

FI16 == <<"F", "I", "2", "1", "1", "2", "3", "4", "5", "6", "0", "0", "0", "0",
          "0", "7", "8", "5">>

DE20 == <<"D", "E", "8", "9", "3", "7", "0", "4", "0", "0", "4", "4", "0", "5",
          "3", "2", "0", "1", "3", "0", "0", "0">>

Ibans == {FI16, DE20, <<>>, <<"F", "I", "1", "2">>,
          <<"F", "I", "2", "1", " ", "1", "2", "3", "4", " ", "5", "6", "0", "0",
            " ", "0", "0", "0", "0", " ", "7", "8", "5">>}

\* thousandths of a euro; none lies halfway between two cents
Amounts == {0, 10, 1234, 1236, 150500, 999999990, 999999994, 999999996,
            1000000000, -4, -1500}

RefBases == {<<"0", "0", "1">>, <<"7">>, D18, D18 \o <<"9">>,
             D18 \o <<"9", "0">>, D18 \o <<"9", "0", "1">>}

References == {calculateRFReference(b, [hi |-> 0, lo |-> 0]) : b \in RefBases}
              \cup {<<>>, <<"R", "F">> \o D18 \o <<"9", "0", "1", "2", "3", "4">>}

DueDates == [fullYear : {999, 1999, 2000, 2005, 2024, 9999, 10000},
             month : {0, 8, 11}, date : {1, 15, 30}]

\* req.nextUrl.pathname
Paths ==
    {<<"/">>,
     <<"/", "l", "o", "g", "i", "n">>,
     <<"/", "r", "e", "g", "i", "s", "t", "e", "r">>,
     <<"/", "l", "o", "g", "i", "n", "/">>,
     <<"/", "r", "e", "g", "i", "s", "t", "e", "r", "x">>,
     <<"/", "a", "p", "i", "/", "a", "u", "t", "h">>,
     <<"/", "a", "p", "i", "/", "a", "u", "t", "h", "/", "s", "i", "g", "n", "i", "n">>,
     <<"/", "a", "p", "i", "/", "a", "u", "t", "h", "x">>,
     <<"/", "a", "p", "i", "/", "i", "n", "v", "o", "i", "c", "e", "s">>,
     <<"/", "a", "p", "i", "/", "c", "o", "m", "p", "a", "n", "i", "e", "s">>,
     <<"/", "i", "n", "v", "o", "i", "c", "e", "s">>,
     <<"/", "i", "n", "v", "o", "i", "c", "e", "s", "/", "a", "1">>,
     <<"/", "i", "n", "v", "o", "i", "c", "e", "s", "/", "a", ".", "p", "n", "g">>,
     <<"/", "_", "n", "e", "x", "t", "/", "s", "t", "a", "t", "i", "c", "/", "a", ".", "j", "s">>,
     <<"/", "_", "n", "e", "x", "t", "/", "i", "m", "a", "g", "e">>,
     <<"/", "_", "n", "e", "x", "t", "/", "d", "a", "t", "a">>,
     <<"/", "f", "a", "v", "i", "c", "o", "n", ".", "i", "c", "o">>,
     <<"/", "f", "a", "v", "i", "c", "o", "n", "x", "i", "c", "o", "/", "a">>,
     <<"/", "l", "o", "g", "o", ".", "s", "v", "g">>,
     <<"/", "a", ".", "j", "p", "e", "g">>,
     <<"/", "a", ".", "p", "n", "g", "x">>,
     <<"/", "s", "v", "g">>}

Names == {<<>>, <<"O", "y">>, <<"A", " ", "B">>, <<"A", "\n", "B">>}

Bics == {<<>>, <<"N", "D", "E", "A", "F", "I", "H", "H">>}

SEPAIbans == {<<>>, FI16}

SEPARefs == {<<>>, RF74001, <<"7", "\n">>}

\* barcodes to format: the ones generateVirtualBarcode returns for these inputs
FormatInputs ==
    LET outcomes == {generateVirtualBarcode(iban, amount, rfReference, dueDate) :
                         iban \in {FI16, <<>>}, amount \in {0, 150500, 999999990},
                         rfReference \in References,
                         dueDate \in [fullYear : {1999, 2024}, month : {0, 11},
                                      date : {1, 15}]}
    IN  {o.value : o \in {x \in outcomes : x.kind = "return"}}

(***************************************************************************)
(* The caller.                                                             *)
(***************************************************************************)
\* const rateLimitStore: RateLimitStore = {}
EmptyStore == [k \in {} |-> [count |-> 0, resetTime |-> 0]]

EmptyBag == [p \in {} |-> 0]

\* the users that can hold a session; None is the absent session, company,
\* customer or invoice
Users == {"u1", "u2", "u3"}

None == "none"

\* the row a lookup yields when there is none (null): its id is 0
NoRow == [id |-> 0]

\* the database at the start: u1 and u2 have registered, each has created a
\* company and one customer of it; u3 has registered only.  Rows made later
\* get the next free number as id.
SeededDb ==
    [companies |-> {[id |-> 1, userId |-> "u1"], [id |-> 2, userId |-> "u2"]},
     customers |-> {[id |-> 1, companyId |-> 1], [id |-> 2, companyId |-> 2]},
     invoices |-> {},
     lineItems |-> {}]

\* the requests being handled at one time
Slots == {"r1", "r2"}

IdleRequest ==
    [route |-> "idle", pc |-> "idle", ip |-> "", session |-> None, body |-> <<>>,
     company |-> 0, invoiceNumber |-> <<>>, status |-> 0, data |-> {}]

Tasks == {"t1", "t2"}

FrameShared(t) == "t1"

\* every local (let / const) of an activation lives in the activation's own
\* frame
FrameOf(t) == t

IdleCall == [fn |-> "idle", args |-> <<>>, pc |-> "idle", ret |-> <<>>,
             overlapped |-> FALSE]

\* the locals the functions declare, before their initialisers have run; a
\* frame is in this state when its activation begins and after it has ended
EmptyFrame == [numStr |-> <<>>, i |-> 0, remainder |-> 0, baseNumber |-> <<>>,
               checkDigits |-> <<>>, barcode |-> <<>>, log |-> <<>>,
               parts |-> <<>>, fields |-> <<>>]

Init ==
    /\ fn = "idle"
    /\ args = <<>>
    /\ ret = <<>>
    /\ call = [t \in Tasks |-> IdleCall]
    /\ frame = [t \in Tasks |-> EmptyFrame]
    /\ rateLimitStore = EmptyStore
    /\ clock = 0
    /\ result = <<>>
    /\ passed = EmptyBag
    /\ ticks = 0
    /\ alone = [store |-> EmptyStore, result |-> <<>>]
    /\ mixedCalls = 0
    /\ db = SeededDb
    /\ request = [s \in Slots |-> IdleRequest]
    /\ started = 0

CallMod97 ==
    /\ fn = "idle"
    /\ \E numStr \in Mod97Inputs :
        /\ fn' = "mod97"
        /\ args' = [numStr |-> numStr]
        /\ ret' = [kind |-> "return", value |-> mod97(numStr),
                   trace |-> Mod97Trace(numStr, 1, <<0>>)]
        /\ UNCHANGED <<concVars, rateVars, appVars>>

CallCalculateRFReference ==
    /\ fn = "idle"
    /\ \E invoiceNumber \in Seeds, now \in Clock :
        /\ fn' = "calculateRFReference"
        /\ args' = [invoiceNumber |-> invoiceNumber, now |-> now]
        /\ ret' = [kind |-> "return",
                   value |-> calculateRFReference(invoiceNumber, now),
                   locals |-> RFLocals(invoiceNumber, now)]
        /\ UNCHANGED <<concVars, rateVars, appVars>>

CallValidateRFReference ==
    /\ fn = "idle"
    /\ \E rfReference \in ValidateInputs :
        /\ fn' = "validateRFReference"
        /\ args' = [rfReference |-> rfReference]
        /\ ret' = [kind |-> "return", value |-> validateRFReference(rfReference)]
        /\ UNCHANGED <<concVars, rateVars, appVars>>

CallGenerateVirtualBarcode ==
    /\ fn = "idle"
    /\ \E iban \in Ibans, amount \in Amounts, rfReference \in References,
          dueDate \in DueDates :
        /\ fn' = "generateVirtualBarcode"
        /\ args' = [iban |-> iban, amount |-> amount, rfReference |-> rfReference,
                    dueDate |-> dueDate]
        /\ ret' = generateVirtualBarcode(iban, amount, rfReference, dueDate)
        /\ UNCHANGED <<concVars, rateVars, appVars>>

CallFormatVirtualBarcode ==
    /\ fn = "idle"
    /\ \E barcode \in FormatInputs :
        /\ fn' = "formatVirtualBarcode"
        /\ args' = [barcode |-> barcode]
        /\ ret' = [kind |-> "return", value |-> formatVirtualBarcode(barcode)]
        /\ UNCHANGED <<concVars, rateVars, appVars>>

CallGenerateSEPAString ==
    /\ fn = "idle"
    /\ \E iban \in SEPAIbans, bic \in Bics, amount \in Amounts,
          reference \in SEPARefs, beneficiaryName \in Names :
        /\ fn' = "generateSEPAString"
        /\ args' = [iban |-> iban, bic |-> bic, amount |-> amount,
                    reference |-> reference, beneficiaryName |-> beneficiaryName]
        /\ ret' = [kind |-> "return",
                   value |-> generateSEPAString(iban, bic, amount, reference,
                                                beneficiaryName)]
        /\ UNCHANGED <<concVars, rateVars, appVars>>

CallMiddleware ==
    /\ fn = "idle"
    /\ \E pathname \in Paths, isLoggedIn \in BOOLEAN :
        /\ fn' = "middleware"
        /\ args' = [pathname |-> pathname, isLoggedIn |-> isLoggedIn]
        /\ ret' = Dispatch(pathname, isLoggedIn)
        /\ UNCHANGED <<concVars, rateVars, appVars>>

Return ==
    /\ fn # "idle"
    /\ fn' = "idle"
    /\ args' = <<>>
    /\ ret' = <<>>
    /\ UNCHANGED <<concVars, rateVars, appVars>>

Next ==
    \/ CallMod97
    \/ CallCalculateRFReference
    \/ CallValidateRFReference
    \/ CallGenerateVirtualBarcode
    \/ CallFormatVirtualBarcode
    \/ CallGenerateSEPAString
    \/ CallMiddleware
    \/ Return

Spec == Init /\ [][Next]_vars

(***************************************************************************)
(* Concurrent callers.  Each task calls the functions one statement at a   *)
(* time (one iteration of a loop is one step), and the steps of the tasks  *)
(* interleave in every order.  The locals of an activation are read and    *)
(* written in frame[FrameOf(t)].                                           *)
(***************************************************************************)
Dec15 == [fullYear |-> 2024, month |-> 11, date |-> 15]

ConcSeeds == {INV001, <<"7">>, <<"I", "N", "V", " ">>}

ConcReferences == {RF74001, <<"r", "f", "7", "5", " ", "0", "0", "1">>,
                   <<"R", "F", "7">>}

ConcBarcodeArgs ==
    {[iban |-> FI16, amount |-> 150500, rfReference |-> RF74001, dueDate |-> Dec15],
     [iban |-> <<>>, amount |-> 1000000000, rfReference |-> RF75001, dueDate |-> Dec15]}

ConcBarcodes == {generateVirtualBarcode(FI16, 150500, RF74001, Dec15).value,
                 <<"4", "1", "2">>}

ConcSEPAArgs ==
    {[iban |-> FI16, bic |-> <<>>, amount |-> 150500, reference |-> RF74001,
      beneficiaryName |-> <<"O", "y">>],
     [iban |-> <<>>, bic |-> <<"N", "D", "E", "A">>, amount |-> -4,
      reference |-> <<>>, beneficiaryName |-> <<>>]}

Running(u) == call[u].pc \notin {"idle", "done"}

\* task t takes a step: its call becomes c, its frame becomes f; every call
\* that is under way while another task moves is marked as overlapped
Step(t, c, f) ==
    /\ call' = [u \in Tasks |->
                  IF u = t
                  THEN [c EXCEPT !.overlapped =
                            (Running(t) /\ call[t].overlapped)
                            \/ \E v \in Tasks \ {t} : Running(v)]
                  ELSE IF Running(u) THEN [call[u] EXCEPT !.overlapped = TRUE]
                  ELSE call[u]]
    /\ frame' = [frame EXCEPT ![FrameOf(t)] = f]
    /\ UNCHANGED <<callerVars, rateVars, appVars>>

Begin(t, name, a, pc) ==
    [fn |-> name, args |-> a, pc |-> pc, ret |-> <<>>, overlapped |-> FALSE]

Done(t, r) == [call[t] EXCEPT !.pc = "done", !.ret = r]

\* calculateRFReference up to the call of mod97(temp)
ConcCallCalculateRFReference(t) ==
    /\ call[t].pc = "idle"
    /\ \E invoiceNumber \in ConcSeeds, now \in Clock :
        LET numericPart == StripNonDigits(invoiceNumber)
            baseNumber == BaseNumberOf(numericPart, now)
            temp == baseNumber \o RFSuffix
        IN  Step(t, Begin(t, "calculateRFReference",
                          [invoiceNumber |-> invoiceNumber, now |-> now], "mod97"),
                 [EmptyFrame EXCEPT !.baseNumber = baseNumber,
                                           !.numStr = temp, !.i = 0,
                                           !.remainder = 0])

\* validateRFReference up to the call of mod97(temp), or its early return
ConcCallValidateRFReference(t) ==
    /\ call[t].pc = "idle"
    /\ \E rfReference \in ConcReferences :
        LET cleaned == toUpperCase(StripWhitespace(rfReference))
            a == [rfReference |-> rfReference]
        IN  IF ~RFPattern(cleaned)
            THEN Step(t, [Begin(t, "validateRFReference", a, "done")
                             EXCEPT !.ret = FALSE],
                      EmptyFrame)
            ELSE Step(t, Begin(t, "validateRFReference", a, "mod97"),
                      [EmptyFrame EXCEPT
                          !.checkDigits = substring(cleaned, 2, 4),
                          !.baseNumber = sliceFrom(cleaned, 4),
                          !.numStr = sliceFrom(cleaned, 4) \o RFSuffix,
                          !.i = 0, !.remainder = 0])

\* one iteration of the loop of mod97
ConcMod97Step(t) ==
    /\ call[t].pc = "mod97"
    /\ LET f == frame[FrameOf(t)]
       IN  /\ f.i < Len(f.numStr)
           /\ Step(t, call[t],
                   [f EXCEPT !.remainder = Mod97Step(f.remainder, f.numStr[f.i + 1]),
                             !.i = f.i + 1])

\* mod97 returns to calculateRFReference, which returns the reference
ConcReturnCalculateRFReference(t) ==
    /\ call[t].pc = "mod97"
    /\ call[t].fn = "calculateRFReference"
    /\ LET f == frame[FrameOf(t)]
       IN  /\ ~(f.i < Len(f.numStr))
           /\ Step(t, Done(t, <<"R", "F">> \o CheckDigitsOf(f.remainder)
                                           \o f.baseNumber),
                   [f EXCEPT !.checkDigits = CheckDigitsOf(f.remainder)])

\* mod97 returns to validateRFReference, which compares the check digits
ConcReturnValidateRFReference(t) ==
    /\ call[t].pc = "mod97"
    /\ call[t].fn = "validateRFReference"
    /\ LET f == frame[FrameOf(t)]
       IN  /\ ~(f.i < Len(f.numStr))
           /\ Step(t, Done(t, f.checkDigits = CheckDigitsOf(f.remainder)), f)

\* generateVirtualBarcode up to the length check
ConcCallGenerateVirtualBarcode(t) ==
    /\ call[t].pc = "idle"
    /\ \E a \in ConcBarcodeArgs :
        LET l == BarcodeLocals(a.iban, a.amount, a.rfReference, a.dueDate)
        IN  Step(t, Begin(t, "generateVirtualBarcode", a, "check"),
                 [EmptyFrame EXCEPT !.barcode = l.barcode, !.log = l])

\* the length check of generateVirtualBarcode and its return or throw
ConcReturnGenerateVirtualBarcode(t) ==
    /\ call[t].pc = "check"
    /\ LET f == frame[FrameOf(t)]
       IN  Step(t, Done(t, IF Len(f.barcode) # 54
                           THEN [kind |-> "throw", got |-> Len(f.barcode),
                                 log |-> f.log]
                           ELSE [kind |-> "return", value |-> f.barcode,
                                 log |-> f.log]),
                f)

\* formatVirtualBarcode up to its loop
ConcCallFormatVirtualBarcode(t) ==
    /\ call[t].pc = "idle"
    /\ \E barcode \in ConcBarcodes :
        Step(t, Begin(t, "formatVirtualBarcode", [barcode |-> barcode], "parts"),
             [EmptyFrame EXCEPT !.barcode = barcode,
                                       !.parts = <<FirstChar(barcode)>>,
                                       !.i = 1])

\* one iteration of the loop of formatVirtualBarcode
ConcFormatStep(t) ==
    /\ call[t].pc = "parts"
    /\ LET f == frame[FrameOf(t)]
       IN  /\ f.i < Len(f.barcode)
           /\ Step(t, call[t],
                   [f EXCEPT !.parts = Append(f.parts, slice(f.barcode, f.i, f.i + 5)),
                             !.i = f.i + 5])

ConcReturnFormatVirtualBarcode(t) ==
    /\ call[t].pc = "parts"
    /\ LET f == frame[FrameOf(t)]
       IN  /\ ~(f.i < Len(f.barcode))
           /\ Step(t, Done(t, join(f.parts, <<" ">>)), f)

\* generateSEPAString up to the join
ConcCallGenerateSEPAString(t) ==
    /\ call[t].pc = "idle"
    /\ \E a \in ConcSEPAArgs :
        Step(t, Begin(t, "generateSEPAString", a, "join"),
             [EmptyFrame EXCEPT
                 !.fields = SEPAFields(a.iban, a.bic, a.amount, a.reference,
                                       a.beneficiaryName)])

ConcReturnGenerateSEPAString(t) ==
    /\ call[t].pc = "join"
    /\ Step(t, Done(t, join(frame[FrameOf(t)].fields, <<"\n">>)),
            frame[FrameOf(t)])

\* the caller takes the result; the task is free for its next call
ConcResume(t) ==
    /\ call[t].pc = "done"
    /\ call' = [call EXCEPT ![t] = IdleCall]
    /\ frame' = [frame EXCEPT ![FrameOf(t)] = EmptyFrame]
    /\ UNCHANGED <<callerVars, rateVars, appVars>>

NextConc ==
    \/ \E t \in Tasks : ConcCallCalculateRFReference(t)
    \/ \E t \in Tasks : ConcCallValidateRFReference(t)
    \/ \E t \in Tasks : ConcMod97Step(t)
    \/ \E t \in Tasks : ConcReturnCalculateRFReference(t)
    \/ \E t \in Tasks : ConcReturnValidateRFReference(t)
    \/ \E t \in Tasks : ConcCallGenerateVirtualBarcode(t)
    \/ \E t \in Tasks : ConcReturnGenerateVirtualBarcode(t)
    \/ \E t \in Tasks : ConcCallFormatVirtualBarcode(t)
    \/ \E t \in Tasks : ConcFormatStep(t)
    \/ \E t \in Tasks : ConcReturnFormatVirtualBarcode(t)
    \/ \E t \in Tasks : ConcCallGenerateSEPAString(t)
    \/ \E t \in Tasks : ConcReturnGenerateSEPAString(t)
    \/ \E t \in Tasks : ConcResume(t)

SpecConc == Init /\ [][NextConc]_vars

(***************************************************************************)
(* rate-limit: rateLimit, as the four POST handlers call it.               *)
(***************************************************************************)
MaxTicks == 2        \* the clock advances at most this many times
MaxOverLimit == 1    \* calls made in one window beyond its maxRequests

\* getClientIp: the first address of x-forwarded-for, or 'unknown'
ClientIps == {"203.0.113.7", "unknown"}

\* the identifier prefix and the config of each call of rateLimit
RateLimitSites ==
    {[prefix |-> "register:", interval |-> 15 * 60 * 1000, maxRequests |-> 5],
     [prefix |-> "companies:", interval |-> 60 * 60 * 1000, maxRequests |-> 10],
     [prefix |-> "customers:", interval |-> 60 * 60 * 1000, maxRequests |-> 20],
     [prefix |-> "invoices:", interval |-> 60 * 60 * 1000, maxRequests |-> 30]}

\* by how much Date.now() grows between two calls (milliseconds): by one, or
\* up to the resetTime of an entry of the store
TickSteps(store, now) ==
    {1} \cup {store[k].resetTime - now :
                k \in {j \in DOMAIN store : store[j].resetTime > now}}

CleanupAtReset(store, now) ==
    [k \in {j \in DOMAIN store : ~(store[j].resetTime <= now)} |-> store[k]]

\* Object.keys(rateLimitStore).forEach(k => { if (resetTime < now) delete })
Cleanup(store, now) ==
    [k \in {j \in DOMAIN store : ~(store[j].resetTime < now)} |-> store[k]]

\* rateLimitStore[key] = entry
Put(store, key, entry) ==
    [k \in DOMAIN store \cup {key} |-> IF k = key THEN entry ELSE store[k]]

rateLimitExpiresAtReset(store, identifier, config, now, random) ==
    LET key == identifier
        cleaned == IF random THEN Cleanup(store, now) ELSE store
    IN  IF key \notin DOMAIN cleaned \/ cleaned[key].resetTime <= now
        THEN [store |-> Put(cleaned, key, [count |-> 1,
                                           resetTime |-> now + config.interval]),
              result |-> [success |-> TRUE,
                          remaining |-> config.maxRequests - 1,
                          resetTime |-> now + config.interval]]
        ELSE LET counted == Put(cleaned, key,
                                [cleaned[key] EXCEPT !.count = @ + 1])
             IN  IF counted[key].count > config.maxRequests
                 THEN [store |-> counted,
                       result |-> [success |-> FALSE, remaining |-> 0,
                                   resetTime |-> counted[key].resetTime]]
                 ELSE [store |-> counted,
                       result |-> [success |-> TRUE,
                                   remaining |-> config.maxRequests
                                                 - counted[key].count,
                                   resetTime |-> counted[key].resetTime]]

\* rateLimit(identifier, config) at time now; random is Math.random() < 0.01.
\* The value is the store afterwards and the object returned.
rateLimit(store, identifier, config, now, random) ==
    LET key == identifier
        cleaned == IF random THEN Cleanup(store, now) ELSE store
    IN  IF key \notin DOMAIN cleaned \/ cleaned[key].resetTime < now
        THEN [store |-> Put(cleaned, key, [count |-> 1,
                                           resetTime |-> now + config.interval]),
              result |-> [success |-> TRUE,
                          remaining |-> config.maxRequests - 1,
                          resetTime |-> now + config.interval]]
        ELSE LET counted == Put(cleaned, key,
                                [cleaned[key] EXCEPT !.count = @ + 1])
             IN  IF counted[key].count > config.maxRequests
                 THEN [store |-> counted,
                       result |-> [success |-> FALSE, remaining |-> 0,
                                   resetTime |-> counted[key].resetTime]]
                 ELSE [store |-> counted,
                       result |-> [success |-> TRUE,
                                   remaining |-> config.maxRequests
                                                 - counted[key].count,
                                   resetTime |-> counted[key].resetTime]]

\* the successful calls that a period ending at `now` or later can hold:
\* those of other identifiers, and those of identifier made after `from`
Recent(log, identifier, from) ==
    [p \in {q \in DOMAIN log : q[1] # identifier \/ q[2] > from} |-> log[p]]

\* one more successful call of identifier at time now
Record(log, identifier, now) ==
    LET p == <<identifier, now>>
    IN  [q \in DOMAIN log \cup {p} |->
            IF q = p THEN (IF p \in DOMAIN log THEN log[p] + 1 ELSE 1)
            ELSE log[q]]

\* a handler calls rateLimit(prefix + ip, config).  Within one behaviour all
\* calls carry one identifier, and a window takes at most maxRequests +
\* MaxOverLimit calls.
CallRateLimit ==
    \E site \in RateLimitSites, ip \in ClientIps, random \in BOOLEAN :
        LET identifier == site.prefix \o ip
            out == rateLimit(rateLimitStore, identifier,
                             [interval |-> site.interval,
                              maxRequests |-> site.maxRequests], clock, random)
        IN  /\ DOMAIN rateLimitStore \subseteq {identifier}
            /\ out.store[identifier].count < site.maxRequests + MaxOverLimit + 1
            /\ rateLimitStore' = out.store
            /\ result' = [identifier |-> identifier, now |-> clock,
                          value |-> out.result]
            /\ passed' = LET recent == Recent(passed, identifier,
                                               clock - site.interval)
                          IN  IF out.result.success
                              THEN Record(recent, identifier, clock)
                              ELSE recent
            /\ UNCHANGED <<clock, ticks, alone, mixedCalls, callerVars, concVars, appVars>>

\* time passes between two calls
Tick ==
    /\ ticks < MaxTicks
    /\ \E d \in TickSteps(rateLimitStore, clock) : clock' = clock + d
    /\ ticks' = ticks + 1
    /\ UNCHANGED <<rateLimitStore, result, passed, alone, mixedCalls, callerVars,
                   concVars, appVars>>

NextRate ==
    \/ CallRateLimit
    \/ Tick

SpecRate == Init /\ [][NextRate]_vars

(***************************************************************************)
(* rateLimit with the identifiers mixed: at every call any of a few call   *)
(* sites and client IPs, a bounded number of calls.                        *)
(***************************************************************************)
MaxMixedCalls == 7   \* calls of rateLimit in one behaviour

\* who calls: registrations from one address and company creations from
\* another (two intervals, two addresses)
MixedCallers ==
    {c \in [site : RateLimitSites, ip : ClientIps] :
        \/ c.site.prefix = "register:" /\ c.ip # "unknown"
        \/ c.site.prefix = "companies:" /\ c.ip = "unknown"}

\* the store with the entry of identifier only
Only(store, identifier) ==
    [k \in DOMAIN store \cap {identifier} |-> store[k]]

CallRateLimitMixed ==
    /\ mixedCalls < MaxMixedCalls
    /\ \E caller \in MixedCallers, random \in BOOLEAN :
        LET site == caller.site
            identifier == site.prefix \o caller.ip
            config == [interval |-> site.interval, maxRequests |-> site.maxRequests]
            out == rateLimit(rateLimitStore, identifier, config, clock, random)
            single == rateLimit(Only(alone.store, identifier), identifier, config,
                                clock, FALSE)
        IN  /\ rateLimitStore' = out.store
            /\ result' = [identifier |-> identifier, now |-> clock,
                          value |-> out.result]
            /\ passed' = LET recent == Recent(passed, identifier,
                                               clock - site.interval)
                          IN  IF out.result.success
                              THEN Record(recent, identifier, clock)
                              ELSE recent
            /\ alone' = [store |-> Put(alone.store, identifier,
                                        single.store[identifier]),
                         result |-> single.result]
            /\ mixedCalls' = mixedCalls + 1
            /\ UNCHANGED <<clock, ticks, callerVars, concVars, appVars>>

NextMixed ==
    \/ CallRateLimitMixed
    \/ Tick

SpecMixed == Init /\ [][NextMixed]_vars

(***************************************************************************)
(* Reference notions the properties are stated with.                       *)
(***************************************************************************)
IsDigitString(s) == \A i \in 1..Len(s) : s[i] \in Digit

\* 10^k modulo 97
RECURSIVE PowMod97(_)
PowMod97(k) == IF k = 0 THEN 1 ELSE (PowMod97(k - 1) * 10) % 97

\* sum over the digits of d[i..] of digit * (10^position modulo 97)
RECURSIVE WeightedSum(_, _)
WeightedSum(d, i) ==
    IF i > Len(d) THEN 0
    ELSE DigitVal(d[i]) * PowMod97(Len(d) - i) + WeightedSum(d, i + 1)

\* the decimal value of the digit string d, modulo 97, by positional weights
DecimalMod97(d) == WeightedSum(d, 1) % 97

\* the decimal value of a digit string of at most 9 digits
RECURSIVE DecimalValue(_)
DecimalValue(d) ==
    IF Len(d) = 0 THEN 0
    ELSE DecimalValue(SubSeq(d, 1, Len(d) - 1)) * 10 + DigitVal(d[Len(d)])

\* s left-padded with '0' to at least n characters
ZeroPadded(s, n) ==
    LET k == IF Len(s) >= n THEN 0 ELSE n - Len(s)
    IN  [i \in 1..(k + Len(s)) |-> IF i <= k THEN "0" ELSE s[i - k]]

\* the n decimal digits of v, most significant first (v < 10^n)
RECURSIVE DecimalDigits(_, _)
DecimalDigits(v, n) ==
    IF n = 0 THEN <<>>
    ELSE DecimalDigits(v \div 10, n - 1) \o <<DigitChars[(v % 10) + 1]>>

\* the characters [from, to) of s, counted from 0
Chars(s, from, to) == [i \in 1..(to - from) |-> s[from + i]]

\* s.split('\n')
RECURSIVE Lines(_)
Lines(s) ==
    IF \A i \in 1..Len(s) : s[i] # "\n" THEN <<s>>
    ELSE LET k == CHOOSE i \in 1..Len(s) :
                      s[i] = "\n" /\ \A j \in 1..(i - 1) : s[j] # "\n"
         IN  <<SubSeq(s, 1, k - 1)>> \o Lines(SubSeq(s, k + 1, Len(s)))

NoNewline(s) == \A i \in 1..Len(s) : s[i] # "\n"

\* the reference is RF, two check digits and at least one base digit
IsRFForm(s) ==
    /\ Len(s) >= 5
    /\ SubSeq(s, 1, 2) = <<"R", "F">>
    /\ IsDigitString(SubSeq(s, 3, Len(s)))

\* DDMMYY of a date given by year, 0-based month and day of month
DDMMYY(dueDate) ==
    DecimalDigits(dueDate.date, 2) \o DecimalDigits(dueDate.month + 1, 2)
    \o DecimalDigits(dueDate.fullYear % 100, 2)

(***************************************************************************)
(* C1.  generateVirtualBarcode returns 54 ASCII digits or throws.          *)
(***************************************************************************)
\* C1: every call of generateVirtualBarcode either throws or returns a string
\* of exactly 54 characters, each of them a digit '0'..'9'.
C1_Returns54DigitsOrThrows ==
    fn = "generateVirtualBarcode" =>
        \/ ret.kind = "throw"
        \/ /\ ret.kind = "return"
           /\ Len(ret.value) = 54
           /\ IsDigitString(ret.value)

(***************************************************************************)
(* C2.  The six fields of the barcode for valid inputs.                    *)
(***************************************************************************)
\* a creditor reference of the data model: RF, check code, base, at most 25
\* characters, checksum-valid
IsCreditorReference(r) == IsRFForm(r) /\ Len(r) <= 25 /\ validateRFReference(r)

ValidBarcodeInput(a) ==
    /\ a.amount >= 0
    /\ a.amount <= 999999990
    /\ a.amount % 10 = 0
    /\ IsCreditorReference(a.rfReference)
    /\ a.dueDate.fullYear \in 1000..9999

\* C2: for every valid input generateVirtualBarcode returns, and the result
\* re-slices into version "4", the IBAN digits zero-padded to 16, the cents
\* zero-padded to 8, "000", the reference digits zero-padded to 20, the date.
C2_FieldsOfValidInput ==
    (fn = "generateVirtualBarcode" /\ ValidBarcodeInput(args)) =>
        /\ ret.kind = "return"
        /\ Len(ret.value) = 54
        /\ Chars(ret.value, 0, 1) = <<"4">>
        /\ Chars(ret.value, 1, 17) = ZeroPadded(StripNonDigits(args.iban), 16)
        /\ Chars(ret.value, 17, 25) = DecimalDigits(args.amount \div 10, 8)
        /\ Chars(ret.value, 25, 28) = <<"0", "0", "0">>
        /\ Chars(ret.value, 28, 48)
               = ZeroPadded(StripNonDigits(args.rfReference), 20)
        /\ Chars(ret.value, 48, 54) = DDMMYY(args.dueDate)

(***************************************************************************)
(* C3.  The number of lines of the SEPA payload.                           *)
(***************************************************************************)
SEPAArgsNoNewline(a) ==
    /\ NoNewline(a.iban)
    /\ NoNewline(a.bic)
    /\ NoNewline(a.reference)
    /\ NoNewline(a.beneficiaryName)

\* C3 as stated: for newline-free arguments the payload splits into exactly
\* 11 lines and line 4 is "SCT".
C3_ElevenLines ==
    (fn = "generateSEPAString" /\ SEPAArgsNoNewline(args)) =>
        /\ Len(Lines(ret.value)) = 11
        /\ Lines(ret.value)[4] = <<"S", "C", "T">>

\* C3 amended: for newline-free arguments the payload splits into exactly
\* 12 lines and line 4 is "SCT".
C3_TwelveLines ==
    (fn = "generateSEPAString" /\ SEPAArgsNoNewline(args)) =>
        /\ Len(Lines(ret.value)) = 12
        /\ Lines(ret.value)[4] = <<"S", "C", "T">>

C3_Witness ==
    /\ fn = "generateSEPAString"
    /\ SEPAArgsNoNewline(args)
    /\ args.bic = <<>>
    /\ args.reference = <<>>
    /\ args.beneficiaryName # <<>>
    /\ Len(Lines(ret.value)) = 12

(***************************************************************************)
(* C4.  Round trip of a digit base.                                        *)
(***************************************************************************)
IsDigitBase(s) == Len(s) >= 1 /\ IsDigitString(s)

\* C4: for every digit string base of 1 to 15 digits, the reference that
\* calculateRFReference returns for it passes validateRFReference.
C4_RoundTrip ==
    (fn = "calculateRFReference" /\ IsDigitBase(args.invoiceNumber)
        /\ Len(args.invoiceNumber) <= 15) =>
        validateRFReference(ret.value) = TRUE

C4_Witness ==
    /\ fn = "calculateRFReference"
    /\ IsDigitBase(args.invoiceNumber)
    /\ Len(args.invoiceNumber) = 15
    /\ args.invoiceNumber[1] = "0"
    /\ validateRFReference(ret.value) = TRUE

(***************************************************************************)
(* C5.  mod97 is the decimal value modulo 97.                              *)
(***************************************************************************)
\* C5: for every digit string d, mod97(d) is the decimal value of d modulo 97
\* (by positional weights for every length, by the value itself up to 9
\* digits), it lies in 0..96, and so does every running remainder.
C5_Mod97IsValueMod97 ==
    fn = "mod97" =>
        /\ ret.kind = "return"
        /\ ret.value = DecimalMod97(args.numStr)
        /\ Len(args.numStr) <= 9 => ret.value = DecimalValue(args.numStr) % 97
        /\ ret.value \in 0..96
        /\ Len(ret.trace) = Len(args.numStr) + 1
        /\ \A k \in 1..Len(ret.trace) : ret.trace[k] \in 0..96

C5_Witness ==
    /\ fn = "mod97"
    /\ Len(args.numStr) >= 40
    /\ args.numStr[1] = "0"
    /\ ret.value = DecimalMod97(args.numStr)
    /\ ret.value > 0

(***************************************************************************)
(* C6.  The check code is ISO 11649 valid and unique.                      *)
(***************************************************************************)
\* C6: for every base digit string B the result is "RF" + cc + B, the number
\* B 2715 cc is congruent to 1 modulo 97, and cc is the only two-digit string
\* for which validateRFReference("RF" + cc + B) is true.
C6_CheckCodeValidAndUnique ==
    (fn = "calculateRFReference" /\ IsDigitBase(args.invoiceNumber)) =>
        LET B == args.invoiceNumber
            cc == Chars(ret.value, 2, 4)
        IN  /\ ret.value = <<"R", "F">> \o cc \o B
            /\ cc \in TwoDigits
            /\ DecimalMod97(B \o <<"2", "7", "1", "5">> \o cc) = 1
            /\ \A other \in TwoDigits :
                   validateRFReference(<<"R", "F">> \o other \o B) <=> other = cc

C6_Witness ==
    /\ fn = "calculateRFReference"
    /\ IsDigitBase(args.invoiceNumber)
    /\ Len(args.invoiceNumber) >= 10
    /\ DecimalMod97(args.invoiceNumber \o <<"2", "7", "1", "5">>
                    \o Chars(ret.value, 2, 4)) = 1
    /\ Cardinality({other \in TwoDigits :
           validateRFReference(<<"R", "F">> \o other \o args.invoiceNumber)}) = 1

(***************************************************************************)
(* C7.  validateRFReference never throws and rejects malformed input.      *)
(***************************************************************************)
\* after removing whitespace and upper-casing: "RF" followed by >= 3 digits
IsWellFormedReference(s) == IsRFForm(toUpperCase(StripWhitespace(s)))

\* C7: every call of validateRFReference returns a boolean (it does not
\* throw), and returns false when the input, whitespace removed and
\* upper-cased, is not "RF" followed by at least 3 digits.
C7_ValidateTotalAndRejects ==
    fn = "validateRFReference" =>
        /\ ret.kind = "return"
        /\ ret.value \in BOOLEAN
        /\ ~IsWellFormedReference(args.rfReference) => ret.value = FALSE

C7_Witness ==
    /\ fn = "validateRFReference"
    /\ args.rfReference = <<"R", "F", "7", "4", "0", "A", "1">>
    /\ ret.kind = "return"
    /\ ret.value = FALSE

(***************************************************************************)
(* C8.  A reference is produced for every seed.                            *)
(***************************************************************************)
\* C8: for every seed (also the empty one and one without a digit, whatever
\* the clock shows) the result is "RF", 2 check digits and at least 1 base
\* digit, and it passes validateRFReference.
C8_AlwaysAReference ==
    fn = "calculateRFReference" =>
        /\ ret.kind = "return"
        /\ IsRFForm(ret.value)
        /\ validateRFReference(ret.value) = TRUE

C8_Witness ==
    /\ fn = "calculateRFReference"
    /\ StripNonDigits(args.invoiceNumber) = <<>>
    /\ args.invoiceNumber # <<>>
    /\ args.now.hi > 0
    /\ Len(ret.value) = 12
    /\ validateRFReference(ret.value) = TRUE

(***************************************************************************)
(* C9.  The literal scenario INV-001.                                      *)
(***************************************************************************)
\* C9: calculateRFReference("INV-001") has base "001", check input
\* "001271500", remainder 24, check digits "74" and result "RF74001";
\* validateRFReference is true of "RF74001" and false of "RF75001".
C9_LiteralScenario ==
    /\ (fn = "calculateRFReference" /\ args.invoiceNumber = INV001) =>
           /\ ret.locals.baseNumber = <<"0", "0", "1">>
           /\ ret.locals.temp = <<"0", "0", "1", "2", "7", "1", "5", "0", "0">>
           /\ ret.locals.remainder = 24
           /\ ret.locals.checkDigits = <<"7", "4">>
           /\ ret.value = RF74001
    /\ (fn = "validateRFReference" /\ args.rfReference = RF74001) =>
           ret.value = TRUE
    /\ (fn = "validateRFReference" /\ args.rfReference = RF75001) =>
           ret.value = FALSE

C9_Witness ==
    /\ fn = "calculateRFReference"
    /\ args.invoiceNumber = INV001
    /\ ret.value = RF74001

(***************************************************************************)
(* C10.  The due-date field is DDMMYY.                                     *)
(***************************************************************************)
\* C10: for a due date with a 4-digit year the date field is day, month,
\* 2-digit year, each of 2 digits, and it is the last 6 characters of a
\* returned barcode; 15 December 2024 gives "151224".
C10_DueDateDDMMYY ==
    (fn = "generateVirtualBarcode" /\ args.dueDate.fullYear \in 1000..9999) =>
        /\ ret.log.formattedDate = DDMMYY(args.dueDate)
        /\ ret.kind = "return" => Chars(ret.value, 48, 54) = DDMMYY(args.dueDate)
        /\ args.dueDate = [fullYear |-> 2024, month |-> 11, date |-> 15] =>
               ret.log.formattedDate = <<"1", "5", "1", "2", "2", "4">>

C10_Witness ==
    /\ fn = "generateVirtualBarcode"
    /\ args.dueDate = [fullYear |-> 2024, month |-> 11, date |-> 15]
    /\ ret.kind = "return"
    /\ Chars(ret.value, 48, 54) = <<"1", "5", "1", "2", "2", "4">>

(***************************************************************************)
(* C11.  formatVirtualBarcode groups the digits and loses none.            *)
(***************************************************************************)
IsSpaceFree(c) == c # " "

\* the formatted string with its spaces removed
StripSpaces(s) == SelectSeq(s, IsSpaceFree)

\* the positions (from 1) of the separators of 1 + 10 * 5 + 3 digits
SpacePositions == {2 + 6 * k : k \in 0..10}

\* C11: for a 54-digit barcode b the result is the first digit, then the other
\* 53 digits in groups of 5 (the last of 3) separated by single spaces;
\* removing the spaces gives b, and formatting that again gives the same.
C11_FormatGroupsAndRoundTrip ==
    (fn = "formatVirtualBarcode" /\ Len(args.barcode) = 54
        /\ IsDigitString(args.barcode)) =>
        /\ ret.kind = "return"
        /\ Len(ret.value) = 65
        /\ \A p \in 1..65 : (ret.value[p] = " ") <=> (p \in SpacePositions)
        /\ ret.value[1] = args.barcode[1]
        /\ StripSpaces(ret.value) = args.barcode
        /\ formatVirtualBarcode(StripSpaces(ret.value)) = ret.value

C11_Witness ==
    /\ fn = "formatVirtualBarcode"
    /\ Len(args.barcode) = 54
    /\ IsDigitString(args.barcode)
    /\ Chars(ret.value, 62, 65) = <<"2", "2", "4">>
    /\ StripSpaces(ret.value) = args.barcode

(***************************************************************************)
(* C12.  Overflowing amount or reference makes the call throw.             *)
(***************************************************************************)
\* C12: when the amount is at least 1,000,000.00 or the reference has more
\* than 20 digits, generateVirtualBarcode throws, the error names the length
\* of the concatenation, and no barcode is returned; with the other fields at
\* their widths a reference of 21 or more digits gives a length of 55 to 57.
C12_OverflowThrows ==
    (fn = "generateVirtualBarcode"
        /\ (args.amount >= 1000000000
            \/ Len(StripNonDigits(args.rfReference)) > 20)) =>
        /\ ret.kind = "throw"
        /\ ret.got = Len(ret.log.barcode)
        /\ (Len(StripNonDigits(args.rfReference)) > 20
            /\ Len(ret.log.paddedAmount) = 8 /\ Len(ret.log.formattedDate) = 6)
               => ret.got \in 55..57

(***************************************************************************)
(* C13.  An IBAN of more than 16 digits is caught by the length check.     *)
(***************************************************************************)
\* C13: when the IBAN has more than 16 digits, generateVirtualBarcode throws
\* and returns no barcode with a truncated account number.
C13_LongIbanThrows ==
    (fn = "generateVirtualBarcode" /\ Len(StripNonDigits(args.iban)) > 16) =>
        ret.kind = "throw"

(***************************************************************************)
(* C14.  The end of the SEPA payload.                                      *)
(***************************************************************************)
\* C14 as stated: the last character of the payload is not a newline.
C14_NoTrailingNewline ==
    fn = "generateSEPAString" => ret.value[Len(ret.value)] # "\n"

\* C14 amended: nothing follows the last field, and as the last two fields
\* are empty the payload ends with the reference followed by two newlines.
C14_EndsWithReferenceAndTwoNewlines ==
    fn = "generateSEPAString" =>
        LET v == ret.value
            n == Len(ret.value)
            r == Len(args.reference)
        IN  /\ n >= r + 3
            /\ v[n] = "\n"
            /\ v[n - 1] = "\n"
            /\ SubSeq(v, n - 1 - r, n - 2) = args.reference
            /\ v[n - 2 - r] = "\n"

C14_Witness ==
    /\ fn = "generateSEPAString"
    /\ args.reference = RF74001
    /\ SubSeq(ret.value, Len(ret.value) - 8, Len(ret.value))
           = RF74001 \o <<"\n", "\n">>

(***************************************************************************)
(* C15.  The fields of the SEPA payload, by position.                      *)
(***************************************************************************)
\* x is a decimal numeral with exactly 2 decimals whose value is the amount
\* (thousandths of a euro) rounded to the nearest cent
IsAmountWith2Decimals(x, amount) ==
    LET neg == amount < 0
        u == IF neg THEN Tail(x) ELSE x
        mag == IF neg THEN 0 - amount ELSE amount
        int == SubSeq(u, 1, Len(u) - 3)
        frac == SubSeq(u, Len(u) - 1, Len(u))
        cents == DecimalValue(int) * 100 + DecimalValue(frac)
    IN  /\ Len(x) >= 4
        /\ neg => x[1] = "-"
        /\ Len(u) >= 4
        /\ u[Len(u) - 2] = "."
        /\ IsDigitString(int)
        /\ IsDigitString(frac)
        /\ Len(int) > 1 => int[1] # "0"
        /\ cents * 10 - mag \in -5..5

\* C15: for newline-free arguments lines 1..4 are BCD, 002, 1, SCT, line 5 is
\* bic, 6 beneficiaryName, 7 iban, 8 "EUR" and the amount with 2 decimals,
\* 9 empty, 10 the reference, every later line empty; an empty bic or
\* reference keeps its line.
C15_FieldsByPosition ==
    (fn = "generateSEPAString" /\ SEPAArgsNoNewline(args)) =>
        LET L == Lines(ret.value)
        IN  /\ Len(L) >= 10
            /\ L[1] = <<"B", "C", "D">>
            /\ L[2] = <<"0", "0", "2">>
            /\ L[3] = <<"1">>
            /\ L[4] = <<"S", "C", "T">>
            /\ L[5] = args.bic
            /\ L[6] = args.beneficiaryName
            /\ L[7] = args.iban
            /\ SubSeq(L[8], 1, 3) = <<"E", "U", "R">>
            /\ IsAmountWith2Decimals(SubSeq(L[8], 4, Len(L[8])), args.amount)
            /\ L[9] = <<>>
            /\ L[10] = args.reference
            /\ \A k \in 11..Len(L) : L[k] = <<>>

C15_Witness ==
    /\ fn = "generateSEPAString"
    /\ SEPAArgsNoNewline(args)
    /\ args.bic = <<>>
    /\ args.reference = <<>>
    /\ args.amount = 150500
    /\ Lines(ret.value)[6] = <<"O", "y">>
    /\ Lines(ret.value)[7] = FI16
    /\ Lines(ret.value)[8] = <<"E", "U", "R", "1", "5", "0", ".", "5", "0">>

(***************************************************************************)
(* C16.  The check digits are two digits between 01 and 98.                *)
(***************************************************************************)
\* C16: for every base digit string the check digits are exactly 2 digit
\* characters whose value is between 1 and 98 (never 00, never 99).
C16_CheckDigitsRange ==
    (fn = "calculateRFReference" /\ IsDigitBase(args.invoiceNumber)) =>
        LET cd == ret.locals.checkDigits
        IN  /\ Len(cd) = 2
            /\ IsDigitString(cd)
            /\ DecimalValue(cd) \in 1..98
            /\ Chars(ret.value, 2, 4) = cd

C16_Witness ==
    /\ fn = "calculateRFReference"
    /\ IsDigitBase(args.invoiceNumber)
    /\ ret.locals.remainder >= 89
    /\ ret.locals.checkDigits[1] = "0"
    /\ Len(ret.locals.checkDigits) = 2

(***************************************************************************)
(* C17.  Single-digit substitutions are detected.                          *)
(***************************************************************************)
\* every way of replacing one digit of the check or base portion of ref by
\* another digit: the pairs <<position, new digit>>
Substitutions(ref) ==
    {<<p, d>> : p \in 3..Len(ref), d \in Digit} \ {<<p, ref[p]>> : p \in 3..Len(ref)}

Substitute(ref, sub) == [ref EXCEPT ![sub[1]] = sub[2]]

Detected(ref) == {sub \in Substitutions(ref) : validateRFReference(Substitute(ref, sub)) = FALSE}

\* C17: for every reference made from a digit base, validateRFReference
\* rejects more than 98/99 of the references that differ from it in one digit
\* of the check or base portion.
C17_SubstitutionsDetected ==
    (fn = "calculateRFReference" /\ IsDigitBase(args.invoiceNumber)) =>
        /\ Cardinality(Substitutions(ret.value)) = 9 * (Len(args.invoiceNumber) + 2)
        /\ Cardinality(Detected(ret.value)) * 99 > 98 * Cardinality(Substitutions(ret.value))

C17_Witness ==
    /\ fn = "calculateRFReference"
    /\ args.invoiceNumber = <<"1", "2", "3", "4", "5", "9", "7">>
    /\ validateRFReference(ret.value) = TRUE
    /\ <<4, "0">> \in Detected(ret.value)
    /\ <<11, "1">> \in Detected(ret.value)
    /\ Cardinality(Detected(ret.value)) = 81

(***************************************************************************)
(* C18.  The length of a generated reference.                              *)
(***************************************************************************)
\* C18 as stated: every reference that calculateRFReference returns has at
\* most 25 characters, whatever the seed.
C18_AtMost25Characters ==
    fn = "calculateRFReference" => Len(ret.value) <= 25

(***************************************************************************)
(* C19.  Concurrent calls do not disturb each other.                       *)
(***************************************************************************)
\* what the call returns when nothing else runs
Alone(c) ==
    CASE c.fn = "calculateRFReference" ->
            calculateRFReference(c.args.invoiceNumber, c.args.now)
      [] c.fn = "validateRFReference" -> validateRFReference(c.args.rfReference)
      [] c.fn = "generateVirtualBarcode" ->
            generateVirtualBarcode(c.args.iban, c.args.amount, c.args.rfReference,
                                   c.args.dueDate)
      [] c.fn = "formatVirtualBarcode" -> formatVirtualBarcode(c.args.barcode)
      [] c.fn = "generateSEPAString" ->
            generateSEPAString(c.args.iban, c.args.bic, c.args.amount,
                               c.args.reference, c.args.beneficiaryName)

InC19(c) ==
    /\ c.pc = "done"
    /\ c.fn = "calculateRFReference" => StripNonDigits(c.args.invoiceNumber) # <<>>

\* C19: under every interleaving of the steps of concurrent calls of
\* calculateRFReference (seed with a digit), validateRFReference,
\* generateVirtualBarcode, formatVirtualBarcode and generateSEPAString, a call
\* that has finished has returned what it returns when it runs alone.
C19_ResultAsWhenAlone ==
    \A t \in Tasks : InC19(call[t]) => call[t].ret = Alone(call[t])

C19_Witness ==
    /\ InC19(call["t1"])
    /\ InC19(call["t2"])
    /\ call["t1"].overlapped
    /\ call["t2"].overlapped
    /\ call["t1"].fn = "calculateRFReference"
    /\ call["t2"].fn = "validateRFReference"
    /\ call["t2"].args.rfReference = RF74001
    /\ call["t1"].ret = RF74001
    /\ call["t2"].ret = TRUE

(***************************************************************************)
(* C20.  The documented limits, over every period.                         *)
(***************************************************************************)
\* README, Rate Limiting: the period (milliseconds) and the number of
\* requests allowed in it, by identifier prefix
DocumentedLimits ==
    {[prefix |-> "register:", period |-> 15 * 60 * 1000, limit |-> 5],
     [prefix |-> "companies:", period |-> 60 * 60 * 1000, limit |-> 10],
     [prefix |-> "customers:", period |-> 60 * 60 * 1000, limit |-> 20],
     [prefix |-> "invoices:", period |-> 60 * 60 * 1000, limit |-> 30]}

RECURSIVE SumOver(_, _)
SumOver(log, keys) ==
    IF keys = {} THEN 0
    ELSE LET p == CHOOSE q \in keys : TRUE
         IN  log[p] + SumOver(log, keys \ {p})

\* the number of calls of identifier that succeeded after `from`, up to `to`
PassedIn(identifier, from, to) ==
    SumOver(passed, {p \in DOMAIN passed :
                        p[1] = identifier /\ p[2] > from /\ p[2] <= to})

\* C20 as stated: for every client IP and every period of the documented
\* length (here: the one that ends now), at most the documented number of
\* requests of each kind has passed the limiter.
C20_LimitInEveryPeriod ==
    \A d \in DocumentedLimits, ip \in ClientIps :
        PassedIn(d.prefix \o ip, clock - d.period, clock) <= d.limit

(***************************************************************************)
(* C26.  validateRFReference accepts exactly the references that           *)
(*       calculateRFReference makes, whatever their case and spacing.      *)
(***************************************************************************)
LowerChar(c) ==
    IF \E i \in 1..26 : UpperChars[i] = c
    THEN LowerChars[CHOOSE i \in 1..26 : UpperChars[i] = c]
    ELSE c

\* r with a space put in (in front, after the second character, behind), with
\* a tab in front, with a newline behind, r in lower case and r in upper case
Variants(r) ==
    {SubSeq(r, 1, k) \o <<" ">> \o SubSeq(r, k + 1, Len(r)) :
        k \in {0, Min(2, Len(r)), Len(r)}}
    \cup {<<"\t">> \o r, r \o <<"\n">>}
    \cup {[i \in 1..Len(r) |-> LowerChar(r[i])], [i \in 1..Len(r) |-> UpperChar(r[i])]}

\* c is "RF", 2 digits and a base of digits, and is the reference made from
\* that base
IsReferenceOfItsBase(c) ==
    /\ IsRFForm(c)
    /\ c = calculateRFReference(SubSeq(c, 5, Len(c)), [hi |-> 0, lo |-> 0])

\* C26: validateRFReference(r) is true exactly when r, whitespace removed and
\* upper-cased, is RF + 2 digits + base digits and equals
\* calculateRFReference(base); r in another letter case or with whitespace
\* put in has the same result.
C26_ValidIffGeneratedUpToCaseAndSpace ==
    fn = "validateRFReference" =>
        /\ ret.value = IsReferenceOfItsBase(toUpperCase(StripWhitespace(args.rfReference)))
        /\ \A v \in Variants(args.rfReference) : validateRFReference(v) = ret.value

C26_Witness ==
    /\ fn = "validateRFReference"
    /\ args.rfReference = <<"r", "f", "7", "4", " ", "0", "0", "1">>
    /\ ret.value = TRUE
    /\ validateRFReference(RF74001) = TRUE

(***************************************************************************)
(* C27.  calculateRFReference depends on the digits of the seed only.      *)
(***************************************************************************)
\* the digits alone, and the digits with one other character put in at
\* every place: seeds with the same digit characters
SeedsWithDigits(digits) ==
    {digits} \cup
    {SubSeq(digits, 1, k) \o <<c>> \o SubSeq(digits, k + 1, Len(digits)) :
        k \in 0..Len(digits), c \in SeedAlphabet \ Digit}

\* C27: when the seed has a digit, every seed with the same digit characters
\* gives the same reference at every time of call, and the base portion is
\* the digit characters of the seed, leading zeros kept.
C27_OnlyTheDigitsMatter ==
    (fn = "calculateRFReference" /\ StripNonDigits(args.invoiceNumber) # <<>>) =>
        LET digits == StripNonDigits(args.invoiceNumber)
        IN  /\ \A other \in SeedsWithDigits(digits), now \in Clock :
                  calculateRFReference(other, now) = ret.value
            /\ SubSeq(ret.value, 5, Len(ret.value)) = digits

C27_Witness ==
    /\ fn = "calculateRFReference"
    /\ args.invoiceNumber = <<"0", "-", "1">>
    /\ args.now.hi > 0
    /\ SubSeq(ret.value, 5, Len(ret.value)) = <<"0", "1">>
    /\ calculateRFReference(<<"I", "0", "1">>, [hi |-> 0, lo |-> 0]) = ret.value

(***************************************************************************)
(* C28.  rateLimit counts per fixed window.                                *)
(***************************************************************************)
\* the config of the call site that makes the identifier
SiteOf(identifier) ==
    CHOOSE site \in RateLimitSites : \E ip \in ClientIps : site.prefix \o ip = identifier

\* a step that is a call of rateLimit
IsCallOfRateLimit == rateLimitStore' # rateLimitStore

\* C28: a call when the identifier has no entry or now > resetTime opens a
\* window (success, remaining = maxRequests - 1, resetTime = now + interval);
\* a call within a window (now <= resetTime) is counted, leaves resetTime as
\* it is, succeeds exactly when it is among the first maxRequests calls of the
\* window, and fails with remaining = 0 otherwise; remaining is never negative.
C28_FixedWindow ==
    [][IsCallOfRateLimit =>
        LET id == result'.identifier
            site == SiteOf(result'.identifier)
            now == clock
            out == result'.value
        IN  /\ result'.now = clock
            /\ out.remaining >= 0
            /\ IF id \notin DOMAIN rateLimitStore \/ now > rateLimitStore[id].resetTime
               THEN /\ out = [success |-> TRUE, remaining |-> site.maxRequests - 1,
                              resetTime |-> now + site.interval]
                    /\ rateLimitStore'[id] = [count |-> 1,
                                              resetTime |-> now + site.interval]
               ELSE /\ rateLimitStore'[id].resetTime = rateLimitStore[id].resetTime
                    /\ out.resetTime = rateLimitStore[id].resetTime
                    /\ rateLimitStore'[id].count = rateLimitStore[id].count + 1
                    /\ out.success = (rateLimitStore'[id].count <= site.maxRequests)
                    /\ out.success =>
                          out.remaining = site.maxRequests - rateLimitStore'[id].count
                    /\ ~out.success => out.remaining = 0
    ]_vars

\* a call at now = resetTime that was the first one over the limit
C28_Witness ==
    /\ result # <<>>
    /\ result.now = rateLimitStore[result.identifier].resetTime
    /\ result.value.success = FALSE
    /\ result.value.remaining = 0
    /\ rateLimitStore[result.identifier].count = SiteOf(result.identifier).maxRequests + 1

(***************************************************************************)
(* C29.  The cleanup is unobservable and identifiers are independent.      *)
(***************************************************************************)
\* C29: whatever calls were made before, with whatever identifiers and with
\* or without the cleanup, a call returns what it returns when the cleanup
\* never runs and no call with another identifier was ever made.
C29_CleanupAndOthersUnobservable ==
    mixedCalls > 0 => result.value = alone.result

\* the cleanup has deleted the entry of another identifier, and the last call
\* was refused
C29_Witness ==
    /\ mixedCalls > 0
    /\ DOMAIN rateLimitStore # DOMAIN alone.store
    /\ result.value.success = FALSE
    /\ result.value = alone.result

(***************************************************************************)
(* C24.  Middleware routing.                                               *)
(***************************************************************************)
IsPublicPath(pathname) ==
    \/ pathname = <<"/", "l", "o", "g", "i", "n">>
    \/ pathname = <<"/", "r", "e", "g", "i", "s", "t", "e", "r">>
    \/ startsWith(pathname, <<"/", "a", "p", "i", "/", "a", "u", "t", "h">>)

\* the routing the claim describes, for one request
RoutedAsStated(pathname, isLoggedIn, response) ==
    /\ (~isLoggedIn /\ ~IsPublicPath(pathname)) =>
          response = [kind |-> "redirect", to |-> <<"/", "l", "o", "g", "i", "n">>]
    /\ (isLoggedIn /\ pathname \in {<<"/", "l", "o", "g", "i", "n">>, <<"/", "r", "e", "g", "i", "s", "t", "e", "r">>}) =>
          response = [kind |-> "redirect", to |-> <<"/">>]
    /\ (~(~isLoggedIn /\ ~IsPublicPath(pathname))
        /\ ~(isLoggedIn /\ pathname \in {<<"/", "l", "o", "g", "i", "n">>, <<"/", "r", "e", "g", "i", "s", "t", "e", "r">>})) =>
          response.kind = "next"

MaxRequests == 4     \* POST /api/companies requests, two handled at a time
MaxAppRequests == 3  \* requests for the invoice routes, two handled at a time
MaxInvoices == 2     \* invoices in the database when a request arrives one by one

\* getClientIp of the requests
AppIps == {"203.0.113.7"}

\* rateLimit(`invoices:${ip}`, { interval: 60 * 60 * 1000, maxRequests: 30 })
InvoicesLimit == [interval |-> 60 * 60 * 1000, maxRequests |-> 30]

\* the body of POST /api/invoices: companyId 0 is the absent (falsy) field,
\* customer 9 has no row, lineItems is the number of line items
InvoiceBodies ==
    {[companyId |-> c, customerId |-> k, lineItems |-> 1] :
        c \in {0, 2}, k \in {1, 2, 9}}

Respond(r, status, data) ==
    [r EXCEPT !.pc = "done", !.status = status, !.data = data]

SlotFree(s) == request[s].pc \in {"idle", "done"}

\* the companies company.findFirst({ where: { userId } }) can yield
FindFirstCompany(d, userId) ==
    IF \E c \in d.companies : c.userId = userId
    THEN {c \in d.companies : c.userId = userId}
    ELSE {NoRow}

\* customer.findUnique({ where: { id } })
FindUniqueCustomer(d, id) ==
    IF \E k \in d.customers : k.id = id
    THEN CHOOSE k \in d.customers : k.id = id
    ELSE NoRow

\* a < b as the database orders strings
RECURSIVE StringLess(_, _)
StringLess(a, b) ==
    IF b = <<>> THEN FALSE
    ELSE IF a = <<>> THEN TRUE
    ELSE IF a[1] = b[1] THEN StringLess(Tail(a), Tail(b))
    ELSE LET CharCode(c) == IF c \in Digit THEN 48 + DigitVal(c)
                            ELSE IF c = "-" THEN 45
                            ELSE IF c = "I" THEN 73
                            ELSE IF c = "N" THEN 78
                            ELSE 86
         IN  CharCode(a[1]) < CharCode(b[1])

\* invoice.findFirst({ where: { companyId }, orderBy: { invoiceNumber: 'desc' } }):
\* the invoice number of the row found, <<>> when there is none
FindLastInvoiceNumber(d, companyId) ==
    LET own == {i.invoiceNumber : i \in {j \in d.invoices : j.companyId = companyId}}
    IN  IF own = {} THEN <<>>
        ELSE CHOOSE n \in own : \A m \in own : ~StringLess(n, m)

\* nextNumber and `INV-${String(nextNumber).padStart(3, '0')}`
\* s.split('-')[1] is what stands between the first '-' and the next;
\* parseInt(s) is the value of the leading digits of s, NaN without any
NextInvoiceNumber(lastInvoiceNumber) ==
    LET RECURSIVE UpToDash(_)
        UpToDash(s) ==
            IF s = <<>> \/ s[1] = "-" THEN <<>> ELSE <<s[1]>> \o UpToDash(Tail(s))
        RECURSIVE AfterDash(_)
        AfterDash(s) ==
            IF s = <<>> THEN <<>>
            ELSE IF s[1] = "-" THEN Tail(s)
            ELSE AfterDash(Tail(s))
        RECURSIVE LeadingDigits(_)
        LeadingDigits(s) ==
            IF s = <<>> \/ s[1] \notin Digit THEN <<>>
            ELSE <<s[1]>> \o LeadingDigits(Tail(s))
        RECURSIVE DigitsValue(_)
        DigitsValue(s) ==
            IF s = <<>> THEN 0
            ELSE 10 * DigitsValue(SubSeq(s, 1, Len(s) - 1)) + DigitVal(s[Len(s)])
        parseIntOf(s) ==
            IF LeadingDigits(s) = <<>> THEN NaN ELSE DigitsValue(LeadingDigits(s))
        nextNumber == IF lastInvoiceNumber # <<>>
                      THEN PlusOne(parseIntOf(UpToDash(AfterDash(lastInvoiceNumber))))
                      ELSE 1
    IN  <<"I", "N", "V", "-">> \o padStart(toString(nextNumber), 3, "0")

\* prisma.invoice.create with the nested lineItems create: the rows are
\* added, a row with the same company and number does not stop it
CreateInvoice(d, companyId, customerId, invoiceNumber, lineItems) ==
    LET id == Cardinality(d.invoices) + 1
        invoice == [id |-> id, companyId |-> companyId, customerId |-> customerId,
                    invoiceNumber |-> invoiceNumber,
                    rfReference |-> calculateRFReference(invoiceNumber,
                                                         [hi |-> 0, lo |-> 0])]
    IN  [db |-> [d EXCEPT !.invoices = @ \cup {invoice},
                          !.lineItems = @ \cup {[invoiceId |-> id, order |-> o] :
                                                   o \in 0..(lineItems - 1)}],
         invoice |-> invoice]

PostInvoicesEnterAuthFirst(store, ip, session, now, random) ==
    IF session = None THEN [store |-> store, status |-> 401]
    ELSE LET out == rateLimit(store, "invoices:" \o ip, InvoicesLimit, now, random)
         IN  [store |-> out.store,
              status |-> IF ~out.result.success THEN 429 ELSE 0]

\* POST /api/invoices up to the first query: rateLimit, then auth()
PostInvoicesEnter(store, ip, session, now, random) ==
    LET out == rateLimit(store, "invoices:" \o ip, InvoicesLimit, now, random)
    IN  [store |-> out.store,
         status |-> IF ~out.result.success THEN 429
                    ELSE IF session = None THEN 401
                    ELSE 0]

\* !(body.companyId && body.companyId !== company.id)
CompanyAllowed(companyId, company) ==
    ~(companyId # 0 /\ companyId # company.id)

CustomerAllowedIfFound(customer, company) == customer.id # 0

\* !(!customer || customer.companyId !== company.id)
CustomerAllowed(customer, company) ==
    ~(customer.id = 0 \/ customer.companyId # company)

\* a POST /api/invoices request arrives at slot s; random is
\* Math.random() < 0.01 (FALSE stands for both outcomes while the cleanup
\* has nothing to delete)
PostInvoicesArrive(s, ip, session, body) ==
    /\ SlotFree(s)
    /\ \E random \in IF Cleanup(rateLimitStore, clock) = rateLimitStore
                     THEN {FALSE} ELSE BOOLEAN :
        LET out == PostInvoicesEnter(rateLimitStore, ip, session, clock, random)
            r == [IdleRequest EXCEPT !.route = "POST /api/invoices", !.ip = ip,
                                     !.session = session, !.body = body]
        IN  /\ \A k \in DOMAIN out.store :
                  out.store[k].count < InvoicesLimit.maxRequests + MaxOverLimit + 1
            /\ rateLimitStore' = out.store
            /\ request' = [request EXCEPT ![s] =
                              IF out.status # 0 THEN Respond(r, out.status, {})
                              ELSE [r EXCEPT !.pc = "company"]]
    /\ UNCHANGED <<db, clock, result, passed, ticks, alone, mixedCalls,
                   callerVars, concVars>>

\* company.findFirst, request.json() and the companyId check
PostInvoicesCompany(s) ==
    /\ request[s].route = "POST /api/invoices"
    /\ request[s].pc = "company"
    /\ \E company \in FindFirstCompany(db, request[s].session) :
        request' = [request EXCEPT ![s] =
                       IF company.id = 0 THEN Respond(@, 400, {})
                       ELSE IF ~CompanyAllowed(@.body.companyId, company)
                       THEN Respond(@, 403, {})
                       ELSE [@ EXCEPT !.pc = "customer", !.company = company.id]]
    /\ UNCHANGED <<db, started, rateVars, callerVars, concVars>>

\* customer.findUnique and the check of its company
PostInvoicesCustomer(s) ==
    /\ request[s].route = "POST /api/invoices"
    /\ request[s].pc = "customer"
    /\ LET customer == FindUniqueCustomer(db, request[s].body.customerId)
       IN  request' = [request EXCEPT ![s] =
                          IF ~CustomerAllowed(customer, @.company)
                          THEN Respond(@, 403, {})
                          ELSE [@ EXCEPT !.pc = "lastInvoice"]]
    /\ UNCHANGED <<db, started, rateVars, callerVars, concVars>>

\* invoice.findFirst of the highest number and the next number
PostInvoicesLastInvoice(s) ==
    /\ request[s].route = "POST /api/invoices"
    /\ request[s].pc = "lastInvoice"
    /\ LET lastInvoiceNumber == FindLastInvoiceNumber(db, request[s].company)
       IN  request' = [request EXCEPT ![s] =
                          [@ EXCEPT !.pc = "create",
                                    !.invoiceNumber =
                                        NextInvoiceNumber(lastInvoiceNumber)]]
    /\ UNCHANGED <<db, started, rateVars, callerVars, concVars>>

\* invoice.create and the 201 response
PostInvoicesCreate(s) ==
    /\ request[s].route = "POST /api/invoices"
    /\ request[s].pc = "create"
    /\ LET r == request[s]
           out == CreateInvoice(db, r.company, r.body.customerId, r.invoiceNumber,
                                r.body.lineItems)
       IN  /\ db' = out.db
           /\ request' = [request EXCEPT ![s] = Respond(@, 201, {out.invoice})]
    /\ UNCHANGED <<started, rateVars, callerVars, concVars>>

\* requests to POST /api/invoices from one address, one at a time
ArriveOneByOne ==
    /\ Cardinality(db.invoices) < MaxInvoices
    /\ SlotFree("r2")
    /\ \E ip \in AppIps, session \in Users \cup {None}, body \in InvoiceBodies :
        PostInvoicesArrive("r1", ip, session, body)
    /\ started' = started + 1

NextQuota ==
    \/ ArriveOneByOne
    \/ \E s \in Slots : PostInvoicesCompany(s)
    \/ \E s \in Slots : PostInvoicesCustomer(s)
    \/ \E s \in Slots : PostInvoicesLastInvoice(s)
    \/ \E s \in Slots : PostInvoicesCreate(s)

SpecQuota == Init /\ [][NextQuota]_vars

(***************************************************************************)
(* The read paths: GET /api/invoices, the invoices page, the invoice page  *)
(***************************************************************************)
\* GET /api/invoices up to the first query: auth()
GetInvoicesArrive(s, session) ==
    /\ SlotFree(s)
    /\ LET r == [IdleRequest EXCEPT !.route = "GET /api/invoices",
                                    !.session = session]
       IN  request' = [request EXCEPT ![s] =
                          IF session = None THEN Respond(r, 401, {})
                          ELSE [r EXCEPT !.pc = "company"]]
    /\ UNCHANGED <<db, rateVars, callerVars, concVars>>

\* company.findFirst
GetInvoicesCompany(s) ==
    /\ request[s].route = "GET /api/invoices"
    /\ request[s].pc = "company"
    /\ \E company \in FindFirstCompany(db, request[s].session) :
        request' = [request EXCEPT ![s] =
                       IF company.id = 0 THEN Respond(@, 400, {})
                       ELSE [@ EXCEPT !.pc = "findMany", !.company = company.id]]
    /\ UNCHANGED <<db, started, rateVars, callerVars, concVars>>

\* invoice.findMany({ where: { companyId: company.id } }) and the response
GetInvoicesFindMany(s) ==
    /\ request[s].route = "GET /api/invoices"
    /\ request[s].pc = "findMany"
    /\ request' = [request EXCEPT ![s] =
                      Respond(@, 200, {i \in db.invoices : i.companyId = @.company})]
    /\ UNCHANGED <<db, started, rateVars, callerVars, concVars>>

\* InvoicesPage up to the query: auth(); without a session the page says
\* Unauthorized (401 stands for it)
InvoicesPageArrive(s, session) ==
    /\ SlotFree(s)
    /\ LET r == [IdleRequest EXCEPT !.route = "/invoices", !.session = session]
       IN  request' = [request EXCEPT ![s] =
                          IF session = None THEN Respond(r, 401, {})
                          ELSE [r EXCEPT !.pc = "findMany"]]
    /\ UNCHANGED <<db, rateVars, callerVars, concVars>>

\* invoice.findMany({ where: { company: { userId } } }) and the page
InvoicesPageFindMany(s) ==
    /\ request[s].route = "/invoices"
    /\ request[s].pc = "findMany"
    /\ request' = [request EXCEPT ![s] =
                      Respond(@, 200,
                              {i \in db.invoices :
                                  \E c \in db.companies :
                                      c.id = i.companyId /\ c.userId = @.session})]
    /\ UNCHANGED <<db, started, rateVars, callerVars, concVars>>

\* InvoiceDetailPage up to the query: await params
InvoiceDetailPageArrive(s, session, id) ==
    /\ SlotFree(s)
    /\ request' = [request EXCEPT ![s] =
                      [IdleRequest EXCEPT !.route = "/invoices/[id]",
                                          !.session = session,
                                          !.body = [id |-> id],
                                          !.pc = "findUnique"]]
    /\ UNCHANGED <<db, rateVars, callerVars, concVars>>

\* invoice.findUnique({ where: { id } }), the rows found; notFound() (404)
\* or the page
InvoiceDetailPageFindUnique(s) ==
    /\ request[s].route = "/invoices/[id]"
    /\ request[s].pc = "findUnique"
    /\ LET invoice == {i \in db.invoices : i.id = request[s].body.id}
       IN  request' = [request EXCEPT ![s] =
                          IF invoice = {} THEN Respond(@, 404, {})
                          ELSE Respond(@, 200, invoice)]
    /\ UNCHANGED <<db, started, rateVars, callerVars, concVars>>

\* a request for an invoice route arrives while at most one other is handled:
\* it takes r1 when that is free, r2 while r1 is busy
Arrive ==
    /\ started < MaxAppRequests
    /\ started' = started + 1
    /\ \E s \in Slots, session \in Users \cup {None} :
        /\ s = "r2" => ~SlotFree("r1")
        /\ \/ \E ip \in AppIps, body \in InvoiceBodies :
                PostInvoicesArrive(s, ip, session, body)
           \/ GetInvoicesArrive(s, session)
           \/ InvoicesPageArrive(s, session)
           \/ \E id \in {1, 2} : InvoiceDetailPageArrive(s, session, id)

NextApp ==
    \/ Arrive
    \/ \E s \in Slots : PostInvoicesCompany(s)
    \/ \E s \in Slots : PostInvoicesCustomer(s)
    \/ \E s \in Slots : PostInvoicesLastInvoice(s)
    \/ \E s \in Slots : PostInvoicesCreate(s)
    \/ \E s \in Slots : GetInvoicesCompany(s)
    \/ \E s \in Slots : GetInvoicesFindMany(s)
    \/ \E s \in Slots : InvoicesPageFindMany(s)
    \/ \E s \in Slots : InvoiceDetailPageFindUnique(s)

SpecApp == Init /\ [][NextApp]_vars

(***************************************************************************)
(* POST /api/companies                                                     *)
(***************************************************************************)
\* rateLimit(`companies:${ip}`, { interval: 60 * 60 * 1000, maxRequests: 10 })
CompaniesLimit == [interval |-> 60 * 60 * 1000, maxRequests |-> 10]

\* the body of POST /api/companies: with every required field, or not
CompanyBodies == {[complete |-> b] : b \in BOOLEAN}

\* prisma.company.create: the row is added
CreateCompany(d, userId) ==
    LET company == [id |-> Cardinality(d.companies) + 1, userId |-> userId]
    IN  [db |-> [d EXCEPT !.companies = @ \cup {company}], company |-> company]

\* POST /api/companies up to the first query: rateLimit, auth(), the body
PostCompaniesArrive(s, ip, session, body) ==
    /\ SlotFree(s)
    /\ \E random \in IF Cleanup(rateLimitStore, clock) = rateLimitStore
                     THEN {FALSE} ELSE BOOLEAN :
        LET out == rateLimit(rateLimitStore, "companies:" \o ip, CompaniesLimit,
                             clock, random)
            r == [IdleRequest EXCEPT !.route = "POST /api/companies", !.ip = ip,
                                     !.session = session, !.body = body]
        IN  /\ rateLimitStore' = out.store
            /\ request' = [request EXCEPT ![s] =
                              IF ~out.result.success THEN Respond(r, 429, {})
                              ELSE IF session = None THEN Respond(r, 401, {})
                              ELSE IF ~body.complete THEN Respond(r, 400, {})
                              ELSE [r EXCEPT !.pc = "existingCompany"]]
    /\ UNCHANGED <<db, clock, result, passed, ticks, alone, mixedCalls,
                   callerVars, concVars>>

\* company.findFirst of the user's company: 409 when there is one
PostCompaniesExistingCompany(s) ==
    /\ request[s].route = "POST /api/companies"
    /\ request[s].pc = "existingCompany"
    /\ \E existingCompany \in FindFirstCompany(db, request[s].session) :
        request' = [request EXCEPT ![s] =
                       IF existingCompany.id # 0 THEN Respond(@, 409, {})
                       ELSE [@ EXCEPT !.pc = "create"]]
    /\ UNCHANGED <<db, started, rateVars, callerVars, concVars>>

\* company.create and the 201 response
PostCompaniesCreate(s) ==
    /\ request[s].route = "POST /api/companies"
    /\ request[s].pc = "create"
    /\ LET out == CreateCompany(db, request[s].session)
       IN  /\ db' = out.db
           /\ request' = [request EXCEPT ![s] = Respond(@, 201, {out.company})]
    /\ UNCHANGED <<started, rateVars, callerVars, concVars>>

\* a request to POST /api/companies arrives while at most one other is handled
ArriveCompanies ==
    /\ started < MaxRequests
    /\ started' = started + 1
    /\ \E s \in Slots, ip \in AppIps, session \in Users \cup {None},
          body \in CompanyBodies :
        /\ s = "r2" => ~SlotFree("r1")
        /\ PostCompaniesArrive(s, ip, session, body)

NextCompanies ==
    \/ ArriveCompanies
    \/ \E s \in Slots : PostCompaniesExistingCompany(s)
    \/ \E s \in Slots : PostCompaniesCreate(s)

SpecCompanies == Init /\ [][NextCompanies]_vars

(***************************************************************************)
(* C21.  Tenant isolation on reads.                                        *)
(***************************************************************************)
ReadRoutes == {"GET /api/invoices", "/invoices", "/invoices/[id]"}

\* the invoice belongs to a company of the user
IsInvoiceOfUser(i, userId) ==
    \E c \in db.companies : c.id = i.companyId /\ c.userId = userId

\* C21: a read by a logged-in user, through every read path, answers with
\* invoices of the user's own company only.
C21_ReadsOnlyOwnInvoices ==
    \A s \in Slots :
        (/\ request[s].route \in ReadRoutes
         /\ request[s].pc = "done"
         /\ request[s].session # None)
        => \A i \in request[s].data : IsInvoiceOfUser(i, request[s].session)

(***************************************************************************)
(* C22.  Invoice numbers are unique per company.                           *)
(***************************************************************************)
\* C22: no two invoices of one company carry the same invoice number, after
\* any interleaving of POST /api/invoices requests.
C22_InvoiceNumbersUniquePerCompany ==
    \A i \in db.invoices : \A j \in db.invoices :
        (i.companyId = j.companyId /\ i.invoiceNumber = j.invoiceNumber) => i = j

(***************************************************************************)
(* C23.  A user owns at most one company.                                  *)
(***************************************************************************)
\* C23: after any interleaving of POST /api/companies requests every user
\* owns at most one company.
C23_AtMostOneCompanyPerUser ==
    \A u \in Users : Cardinality({c \in db.companies : c.userId = u}) <= 1

(***************************************************************************)
(* C25.  Invoices are created for the user's company and its customers.    *)
(***************************************************************************)
\* the body names a company other than the one found for the user
NamesOtherCompany(r) ==
    /\ r.body.companyId # 0
    /\ \A c \in db.companies : c.userId = r.session => c.id # r.body.companyId

\* the body names no customer of a company of the user
NamesNoOwnCustomer(r) ==
    ~\E k \in db.customers :
        /\ k.id = r.body.customerId
        /\ \E c \in db.companies : c.id = k.companyId /\ c.userId = r.session

HasCompany(userId) == \E c \in db.companies : c.userId = userId

C25_LinkedOr403 ==
    \A s \in Slots :
        LET r == request[s]
        IN  (r.route = "POST /api/invoices" /\ r.pc = "done") =>
              /\ r.status = 201 =>
                    \A i \in r.data :
                        /\ i \in db.invoices
                        /\ IsInvoiceOfUser(i, r.session)
                        /\ \E k \in db.customers :
                              k.id = i.customerId /\ k.companyId = i.companyId
                        /\ \E l \in db.lineItems : l.invoiceId = i.id
              /\ (/\ r.status \notin {429, 401}
                  /\ HasCompany(r.session)
                  /\ NamesOtherCompany(r) \/ NamesNoOwnCustomer(r))
                 => r.status = 403

\* a step that answers 403 creates nothing
C25_NothingCreatedOn403 ==
    \A s \in Slots :
        (request'[s].status = 403 /\ request[s].pc # "done") => db' = db

QuotaUsed(r) ==
    IF ("invoices:" \o r.ip) \in DOMAIN rateLimitStore
    THEN rateLimitStore["invoices:" \o r.ip].count
    ELSE 0

\* the answer the stated order of checks gives to the request
StatusInOrder(r) ==
    IF QuotaUsed(r) > InvoicesLimit.maxRequests THEN 429
    ELSE IF r.session = None THEN 401
    ELSE IF ~HasCompany(r.session) THEN 400
    ELSE IF NamesOtherCompany(r) THEN 403
    ELSE IF NamesNoOwnCustomer(r) THEN 403
    ELSE 201

C30_AnswerInOrder ==
    LET r == request["r1"]
    IN  r.route = "POST /api/invoices" =>
            /\ QuotaUsed(r) = started
            /\ r.pc = "done" => r.status = StatusInOrder(r)

\* a step that answers 429, 401, 400 or 403 creates nothing
C30_NothingCreatedUnless201 ==
    (request'["r1"].status \in {429, 401, 400, 403} /\ request["r1"].pc # "done")
        => db' = db

\* C30: requests to POST /api/invoices arriving one by one from one address
\* are answered by the first failing check in the order rate limit (429),
\* session (401), company (400), body.companyId (403), customer (403), and
\* with 201 when none fails; every request, whatever its answer, has used
\* one slot of the quota of its address, and a request answered 429, 401,
\* 400 or 403 creates nothing.
C30_ChecksInFixedOrder ==
    /\ []C30_AnswerInOrder
    /\ [][C30_NothingCreatedUnless201]_vars

C30_Witness ==
    /\ request["r1"].route = "POST /api/invoices"
    /\ request["r1"].pc = "done"
    /\ request["r1"].session = "u1"
    /\ request["r1"].body.companyId = 0
    /\ request["r1"].body.customerId = 1
    /\ request["r1"].status = 429
    /\ QuotaUsed(request["r1"]) = InvoicesLimit.maxRequests + 1
    /\ Cardinality(db.invoices) = 1

====
